---- MODULE Spec2Model ----
(***************************************************************************)
(* Model of the ORCID identity-resolution pipeline of ExpertAI:            *)
(*   - app/utils/helpers.py      : task store, safe_json_loads,            *)
(*                                 extract_json_from_deepseek_response     *)
(*   - app/services/agent_service.py : which agents answer with a          *)
(*                                 structured object and which with text   *)
(*   - app/routes/orcid.py       : table-search_v2, table-search-deepseek  *)
(*                                 and search-individual handlers          *)
(* The language-model agents and the directory are inputs: every answer    *)
(* the calling code accepts is a possible answer.                          *)
(***************************************************************************)
EXTENDS Integers, Sequences, FiniteSets, TLC

\* ---------------------------------------------------------------- bounds
MaxRows == 2
MaxTasks == 2
MaxScores == 2
MaxFound == 2
MaxDbId == 3
MaxEntries == 2

\* ---------------------------------------------------------------- values
None == "<None>"
OrcidIds == {"A", "B"}

\* The i-th row returned by the row source (column name -> scalar).
Row(i) == [prenom |-> "Marie", nom |-> "Curie", line |-> i]

\* multi_db_mcp.select_data: the rows of a table of n rows, as dicts
RowSource(n) == [i \in 1..n |-> Row(i)]

\* dict.get(key, default) on a row
RowGet(row, key, default) == IF key \in DOMAIN row THEN row[key] ELSE default

\* ------------------------------------------------------------- row source
PyNone == [t |-> "none"]

\* what call_mcp("select_data", args) can return:
\*   none       : None, after a requests.RequestException (no connection, or
\*                an HTTP error status)
\*   garbage    : a body that is neither an SSE data line nor JSON
\*   rpc_error  : a JSON-RPC answer with an 'error' member and no 'result'
\*   tool_error : a 'result' with isError and content, no structuredContent
\*                (the SELECT raised in the database server)
\*   rows       : a 'result' whose structuredContent is {"result": [rows]}
McpReplies ==
    {[t |-> k, n |-> 0] : k \in {"none", "garbage", "rpc_error", "tool_error"}}
    \cup {[t |-> "rows", n |-> n] : n \in 0..MaxRows}

\* mcp_service.parse_mcp_response_local: structuredContent when it is a
\* dict, else data["result"], else None
parse_mcp_response_local(raw) ==
    CASE raw.t = "rows" ->
           [t |-> "dict", has_result |-> TRUE, keys |-> <<"result">>,
            rows |-> RowSource(raw.n)]
      [] raw.t = "tool_error" ->
           [t |-> "dict", has_result |-> FALSE, keys |-> <<"content", "isError">>,
            rows |-> <<>>]
      [] OTHER -> PyNone

\* a table without rows is taken for a failure
select_query_results_v2_strict(raw) ==
    IF raw.t = "none" \/ (raw.t = "rows" /\ raw.n = 0) THEN [t |-> "raise"]
    ELSE LET result == parse_mcp_response_local(raw) IN
         IF result.t = "dict" THEN result
         ELSE [t |-> "list", has_result |-> FALSE, keys |-> <<>>, rows |-> <<>>]

\* database_utils.select_query_results_v2: raw[:500] raises on None; a falsy
\* parse result gives the empty list
select_query_results_v2(raw) ==
    IF raw.t = "none" THEN [t |-> "raise"]
    ELSE LET result == parse_mcp_response_local(raw) IN
         IF result.t = "dict" THEN result
         ELSE [t |-> "list", has_result |-> FALSE, keys |-> <<>>, rows |-> <<>>]

\* iterating a dict gives its keys: a row that is a str
KeyRow(k, i) == [key |-> k, line |-> i]

\* isinstance(row, dict)
IsRowDict(row) == "key" \notin DOMAIN row

\* orcid.py 86-90: rows = response["result"] when the response is a dict
\* that has the key, else the response itself
RowsOf(resp) ==
    IF resp.t = "dict" /\ ~resp.has_result
    THEN [i \in 1..Len(resp.keys) |-> KeyRow(resp.keys[i], i)]
    ELSE resp.rows

\* the row source did not give the rows of the table
SourceFailures == {"none", "garbage", "rpc_error", "tool_error"}
NoQuery == "not_queried"
NoCall == [t |-> "none"]
NoStub == [t |-> "none"]

\* models/base.py TaskStatus.result: Optional[Any] = None
ResultNone == [t |-> "none"]

NoTask == [status |-> "absent", result |-> ResultNone, error |-> None]

\* models/base.py TaskStatus as stored by create_task
NewTaskStatus == [status |-> "pending", result |-> ResultNone, error |-> None]

\* no run of the batch is over yet
NoRun == [status |-> "absent", result |-> ResultNone, error |-> None]

\* ------------------------------------------------------- agent construction
\* Families of model names told apart by get_agent_and_servers_v2 and the
\* make_* factories.
ModelKinds == {"openai", "gemini", "deepseek", "other"}

\* make_extract_agent / DeepSeek branch: output_type None gives text
ExtractForm(k) == IF k = "deepseek" THEN "str" ELSE "obj"

\* make_orcid_search_agent / DeepSeek branch
SearchForm(k) == IF k \in {"deepseek", "gemini"} THEN "str" ELSE "obj"

\* make_orcid_result_picker / DeepSeek branch
PickerForm(k) == IF k \in {"openai", "gemini"} THEN "obj" ELSE "str"

\* make_works_extract_agent / DeepSeek branch
WorksForm(k) == IF k = "deepseek" THEN "str" ELSE "obj"

\* ------------------------------------------------------------ text answers
\* A text answer of an agent: how the JSON payload is laid out in the text
\* and what the payload is.
\*   bare   : the text is the JSON document
\*   fenced : the JSON document inside a ```json fence, prose around it
\*   prose  : the JSON document in the middle of a sentence
\*   nojson : a sentence without braces
\*   empty  : the empty string
Shapes == {"bare", "fenced", "prose", "nojson", "empty"}

Broken == [t |-> "broken"]
JsonList == [t |-> "list"]

Text(shape, payload) == [t |-> "str", shape |-> shape, payload |-> payload]

HasPayload(x) == x.shape \in {"bare", "fenced", "prose"}

\* json.loads(x) succeeds on x
JsonLoadsOk(x) == x.shape = "bare" /\ x.payload.t # "broken"

\* helpers.safe_json_loads: a str is parsed, and returned as is when
\* json.loads raises; a dict or list is returned as is
safe_json_loads(x) ==
    IF x.t = "str"
    THEN IF JsonLoadsOk(x) THEN x.payload ELSE x
    ELSE x

\* helpers.extract_json_from_deepseek_response: the fenced object, else the
\* text between the first '{' and the last '}', else None
extract_json_from_deepseek_response(x) ==
    IF x.shape = "empty" THEN [t |-> "none"]
    ELSE IF HasPayload(x) /\ x.payload.t = "dict" THEN x.payload
    ELSE [t |-> "none"]

IsDict(x) == x.t = "dict"

\* Python truthiness of an optional string
Truthy(s) == s # None /\ s # ""

\* ------------------------------------------------------ extract agent answers
NameChoices == {<<"Marie", "Curie">>, <<None, "Curie">>, <<"Marie", None>>,
                <<"", "Curie">>, <<None, None>>}
OptChoices == {<<None, None, None>>, <<None, "Sorbonne", None>>,
               <<"m@c.fr", None, "France">>}

Draft(n, o) == [first_name |-> n[1], last_name |-> n[2],
                email |-> o[1], affiliation |-> o[2], country |-> o[3]]
Drafts == {Draft(n, o) : n \in NameChoices, o \in OptChoices}
NoDraft == Draft(<<None, None>>, <<None, None, None>>)

ExtractDict(d) == [t |-> "dict", firstname |-> d.first_name,
                   lastname |-> d.last_name, email |-> d.email,
                   affiliation |-> d.affiliation, country |-> d.country]
ExtractObj(d) == [t |-> "obj", firstname |-> d.first_name,
                  lastname |-> d.last_name, email |-> d.email,
                  affiliation |-> d.affiliation, country |-> d.country]

\* what Runner.run(extract_agent, ...) can give: an exception, or a
\* final_output of the form the agent was built with
ExtractAnswers(k) ==
    {[t |-> "raise"]} \cup
    (IF ExtractForm(k) = "obj"
     THEN {ExtractObj(d) : d \in Drafts}
     ELSE {Text("bare", ExtractDict(d)) : d \in Drafts}
          \cup {Text("prose", ExtractDict(Draft(<<"Marie", "Curie">>, <<None, None, None>>))),
                Text("bare", JsonList), Text("bare", Broken),
                Text("nojson", Broken)})

\* orcid.py 111-133: the identity read from the extract answer
DraftOf(x) == [first_name |-> x.firstname, last_name |-> x.lastname,
               email |-> x.email, affiliation |-> x.affiliation,
               country |-> x.country]

\* the name test with 'and' in place of 'or'
NamesMissing_both(d) == ~Truthy(d.first_name) /\ ~Truthy(d.last_name)

\* orcid.py 135: the row is skipped when a name is missing
NamesMissing(d) == ~Truthy(d.first_name) \/ ~Truthy(d.last_name)

\* a field that is the empty string counts as present
search_variants_of_not_none(d) ==
    <<"name_only">>
    \o (IF d.affiliation # None THEN <<"name_affiliation">> ELSE <<>>)
    \o (IF d.email # None THEN <<"name_email">> ELSE <<>>)
    \o (IF d.country # None THEN <<"name_country">> ELSE <<>>)
    \o <<"swapped">>

\* orcid.py 142-151: the planned variants
search_variants_of(d) ==
    <<"name_only">>
    \o (IF Truthy(d.affiliation) THEN <<"name_affiliation">> ELSE <<>>)
    \o (IF Truthy(d.email) THEN <<"name_email">> ELSE <<>>)
    \o (IF Truthy(d.country) THEN <<"name_country">> ELSE <<>>)
    \o <<"swapped">>


\* ------------------------------------------------------ search agent answers
ResearcherLists == {<<>>, <<"A">>}
SearchDict(r) == [t |-> "dict", researchers |-> r]
SearchObj(r) == [t |-> "obj", researchers |-> r]

\* what Runner.run(orcid_search_agent, ...) can give
SearchAnswers(k) ==
    {[t |-> "raise"]} \cup
    (IF SearchForm(k) = "obj"
     THEN {SearchObj(r) : r \in ResearcherLists}
     ELSE {Text("bare", SearchDict(r)) : r \in ResearcherLists}
          \cup {Text("fenced", SearchDict(<<"A">>)), Text("bare", JsonList),
                Text("nojson", Broken)})

\* orcid.py 174-192: what one variant's answer adds to search_results
SearchAppended(a) ==
    IF a.t = "raise" THEN <<>>
    ELSE IF a.t = "str"
         THEN IF IsDict(safe_json_loads(a)) THEN <<safe_json_loads(a)>> ELSE <<>>
         ELSE <<a>>

\* the loop ends at the first variant that found a candidate
VariantsLeft_found(a, i, n) == i < n /\ SearchAppended(a) = <<>>

\* the loop ends at the first variant whose call raises
VariantsLeft_break(a, i, n) == a.t # "raise" /\ i < n

\* orcid.py 154 and 194-196: after variant i of n the loop goes on with the
\* next one, whatever the answer was
VariantsLeft(a, i, n) == i < n

\* ------------------------------------------------------ picker agent answers
\* models/orcid.py ResearcherInfoTable as a picker fills it for a candidate
Profile(t, id) ==
    [t |-> t, orcid_id |-> id,
     first_name |-> IF id \in OrcidIds THEN "Marie" ELSE None,
     last_name |-> IF id \in OrcidIds THEN "Curie" ELSE None,
     email |-> None,
     country |-> IF id = "A" THEN "France" ELSE None,
     affiliation |-> IF id = "A" THEN "Sorbonne" ELSE None,
     main_research_area |-> None, specific_research_area |-> None]

PickedIds == OrcidIds \cup {None, ""}
JsonNull == Profile("none", None)
NoBest == Profile("unset", None)

PickerDict(has, res) == [t |-> "dict", has_result |-> has, result |-> res]

\* what Runner.run(orcid_result_picker, ...) can give: an exception, a
\* validated PickerOutput, or (output_type None) any text
PickerAnswers(k) ==
    {[t |-> "raise"]} \cup
    (IF PickerForm(k) = "obj"
     THEN {[t |-> "obj", result |-> Profile("obj", id)] : id \in PickedIds}
     ELSE {Text("bare", PickerDict(TRUE, Profile("dict", id))) : id \in PickedIds}
          \cup {Text("bare", PickerDict(TRUE, JsonNull)),
                Text("bare", PickerDict(FALSE, JsonNull)),
                Text("fenced", PickerDict(TRUE, Profile("dict", "A"))),
                Text("bare", JsonList), Text("nojson", Broken)})

\* orcid.py 230-248: best_result, or NoBest when the answer is rejected
BestResultOf(a) ==
    IF a.t = "str"
    THEN LET p == safe_json_loads(a) IN
         IF IsDict(p) /\ p.has_result THEN p.result ELSE NoBest
    ELSE a.result

\* hasattr(best_result, <field>): a pydantic object has the attributes, a
\* dict (or None) has not
HasAttr(b) == b.t = "obj"

\* orcid.py 251: the condition of step 4
WantsWorks(b) == b.t # "none" /\ HasAttr(b) /\ Truthy(b.orcid_id)

\* ------------------------------------------------------- works agent answers
AreaPairs == {<<None, None>>, <<"", "">>, <<"physics", "radioactivity">>}
WorksObj(p) == [t |-> "obj", main_research_area |-> p[1],
                specific_research_area |-> p[2]]
WorksDict(hm, hs, p) == [t |-> "dict", has_main |-> hm, has_specific |-> hs,
                         main_research_area |-> p[1],
                         specific_research_area |-> p[2]]

WorksAnswers(k) ==
    {[t |-> "raise"]} \cup
    (IF WorksForm(k) = "obj"
     THEN {WorksObj(p) : p \in AreaPairs}
     ELSE {Text("bare", WorksDict(TRUE, TRUE, <<"physics", "radioactivity">>)),
           Text("bare", WorksDict(TRUE, FALSE, <<"physics", None>>)),
           Text("bare", JsonList), Text("nojson", Broken)})

\* the works run raised, or its text answer is not a JSON object
WorksFailed(a) ==
    \/ a.t = "raise"
    \/ a.t = "str" /\ ~(a.shape = "bare" /\ a.payload.t = "dict")

\* orcid.py 277-297: best_result after the works answer was read
AfterWorks(b, a) ==
    IF a.t = "raise" THEN b
    ELSE IF a.t = "str"
    THEN LET p == safe_json_loads(a) IN
         IF IsDict(p)
         THEN [b EXCEPT !.main_research_area =
                            IF p.has_main THEN p.main_research_area ELSE @,
                        !.specific_research_area =
                            IF p.has_specific THEN p.specific_research_area ELSE @]
         ELSE b
    ELSE [b EXCEPT !.main_research_area = a.main_research_area,
                   !.specific_research_area = a.specific_research_area]

\* the entry is put in front of the list
ListAppend_front(l, x) == <<x>> \o l

\* orcid.py 312, 456, 476: all_results.append(...)
ListAppend(l, x) == Append(l, x)

\* the entry with the first row as original data
result_dict_first_row(b, row) ==
    [orcid_id |-> IF HasAttr(b) THEN b.orcid_id ELSE None,
     first_name |-> IF HasAttr(b) THEN b.first_name ELSE None,
     last_name |-> IF HasAttr(b) THEN b.last_name ELSE None,
     email |-> IF HasAttr(b) THEN b.email ELSE None,
     country |-> IF HasAttr(b) THEN b.country ELSE None,
     affiliation |-> IF HasAttr(b) THEN b.affiliation ELSE None,
     main_research_area |-> IF HasAttr(b) THEN b.main_research_area ELSE None,
     specific_research_area |-> IF HasAttr(b) THEN b.specific_research_area ELSE None,
     original_data |-> [row EXCEPT !.line = 1]]

\* orcid.py 300-310: the entry appended to all_results
result_dict(b, row) ==
    [orcid_id |-> IF HasAttr(b) THEN b.orcid_id ELSE None,
     first_name |-> IF HasAttr(b) THEN b.first_name ELSE None,
     last_name |-> IF HasAttr(b) THEN b.last_name ELSE None,
     email |-> IF HasAttr(b) THEN b.email ELSE None,
     country |-> IF HasAttr(b) THEN b.country ELSE None,
     affiliation |-> IF HasAttr(b) THEN b.affiliation ELSE None,
     main_research_area |-> IF HasAttr(b) THEN b.main_research_area ELSE None,
     specific_research_area |-> IF HasAttr(b) THEN b.specific_research_area ELSE None,
     original_data |-> row]


\* ------------------------------------------------------------------ state
VARIABLES
    task_results,     \* helpers.task_results: task id -> TaskStatus
    next_task,        \* how many ids create_task has drawn
    origin,           \* history: the endpoint that created each task
    detached,         \* coroutines added to a BackgroundTasks nobody runs
    task_id,          \* the task of the running handler
    route,            \* the handler that is running
    response,         \* what the handler returned to its caller
    pc,               \* where the running handler stands
    kind,             \* family of request.model_name
    rows,             \* the rows the row source returned
    idx,              \* 1-based index of the row being processed
    all_results,      \* the result list of the batch
    wanted,           \* first_name, last_name, email, affiliation, country
    search_variants,  \* the planned variants of the current row
    vi,               \* index of the variant being attempted
    search_results,   \* result sets gathered for the current row
    best_result,      \* the picker's result for the current row
    result_src,       \* history: index of the row each entry was built from
    audit,            \* history: per row, which agents were invoked
    decision,         \* the picker answer the pipeline went on with
    query,            \* history: how the row source answered
    call,             \* the directory tool call being served
    stub,             \* the deterministic stand-ins of the services
    first_run,        \* the task record the first run of a batch left
    configs,          \* multi_db_mcp: the YAML file, key -> entry
    DBS,              \* multi_db_mcp.DBS: database id -> configuration
    researchers_data, \* the entries submitted to save_researchers_bulk
    session,          \* the AsyncSession: its state and the rows it sees
    chercheurs,       \* the committed rows of table chercheurs
    saved_researchers,
    duplicate_researchers,
    failed_researchers

dbVars == <<configs, DBS>>
bulkVars == <<researchers_data, session, chercheurs, saved_researchers,
              duplicate_researchers, failed_researchers>>
storeVars == <<dbVars, bulkVars>>

\* a dict with no key
EmptyDict == [k \in {} |-> k]
NoSession == [state |-> "closed", rows |-> {}]

IdleDbs ==
    /\ configs = EmptyDict
    /\ DBS = EmptyDict

\* neither the database server nor the researcher service is in use
IdleStores ==
    /\ IdleDbs
    /\ researchers_data = <<>>
    /\ session = NoSession
    /\ chercheurs = {}
    /\ saved_researchers = <<>>
    /\ duplicate_researchers = <<>>
    /\ failed_researchers = <<>>

vars == <<task_results, next_task, origin, detached, task_id, route, response, pc, kind, rows, idx, all_results, wanted,
          search_variants, vi, search_results, best_result, result_src, audit,
          decision, query, call, stub, first_run, storeVars>>

serverVars == <<next_task, origin, detached, task_id, decision, query, call,
                stub, first_run, storeVars>>
handlerVars == <<next_task, origin, detached, task_id, decision, call, stub,
                 first_run, storeVars>>
TaskIds == 1..MaxTasks

rowLocals == <<wanted, search_variants, vi, search_results, best_result>>

Undecided == "<undecided>"
NewAudit == [extract |-> "pending", raised |-> FALSE, searched |-> FALSE,
             nocand |-> FALSE, ranked |-> FALSE, selected |-> Undecided,
             synth |-> FALSE, synthfail |-> FALSE]

\* what the extract agent's answer was, told from the answer alone
ExtractFact(a) ==
    IF a.t = "raise" THEN "raised"
    ELSE IF a.t = "str" /\ ~(a.shape = "bare" /\ a.payload.t = "dict")
    THEN "unparseable"
    ELSE IF LET d == IF a.t = "str" THEN a.payload ELSE a IN
            d.firstname \in {None, ""} \/ d.lastname \in {None, ""}
    THEN "noname"
    ELSE "ok"

NoResponse == [t |-> "none"]

\* ------------------------------------------------------------- task store

\* helpers.get_task_status: the entry of the task, or None
get_task_status(tr, id) == IF tr[id].status = "absent" THEN NoTask ELSE tr[id]

\* the entry is written whether or not the task is in the store
update_task_status_upsert(tr, id, status, result, error) ==
    [tr EXCEPT ![id] = [status |-> status,
                        result |-> IF result.t # "none" THEN result ELSE @.result,
                        error |-> IF error # None THEN error ELSE @.error]]

\* helpers.update_task_status
update_task_status(tr, id, status, result, error) ==
    IF tr[id].status # "absent"
    THEN [tr EXCEPT ![id] = [status |-> status,
                             result |-> IF result.t # "none" THEN result ELSE @.result,
                             error |-> IF error # None THEN error ELSE @.error]]
    ELSE tr

\* orcid.py 319-324: the result stored when the batch is over
BatchResult(res) == [t |-> "batch", results |-> res,
                     total_processed |-> Len(rows),
                     successful_matches |-> Len(res), model_used |-> kind]

ResetLocals ==
    /\ wanted' = NoDraft
    /\ search_variants' = <<>>
    /\ vi' = 0
    /\ search_results' = <<>>
    /\ best_result' = NoBest

\* orcid.py 328-331: an exception reaches the handler of the coroutine
TaskRaised(tr, msg) ==
    /\ task_results' = update_task_status(tr, task_id, "failed", ResultNone, msg)
    /\ pc' = "raised"

\* the task is completed inside the loop, after each row
NextRow_each(res, src, aud) ==
    /\ all_results' = res
    /\ result_src' = src
    /\ audit' = aud
    /\ ResetLocals
    /\ UNCHANGED <<route, response, kind, rows>>
    /\ task_results' = update_task_status(task_results, task_id,
                           "completed", BatchResult(res), None)
    /\ IF idx < Len(rows)
       THEN idx' = idx + 1 /\ pc' = "extract"
       ELSE idx' = idx /\ pc' = "done"

\* orcid.py 95, 319-324: the loop goes on with the next row, or is over and
\* the task is completed
NextRow(res, src, aud) ==
    /\ all_results' = res
    /\ result_src' = src
    /\ audit' = aud
    /\ ResetLocals
    /\ UNCHANGED <<route, response, kind, rows>>
    /\ IF idx < Len(rows)
       THEN /\ idx' = idx + 1
            /\ pc' = "extract"
            /\ UNCHANGED task_results
       ELSE /\ idx' = idx
            /\ pc' = "done"
            /\ task_results' = update_task_status(task_results, task_id,
                                   "completed", BatchResult(res), None)

\* ---------------------------------------------- table_search_task (v2)
\* orcid.py 42-63: running, then the database id is looked up
TaskBegin ==
    /\ route = "v2"
    /\ UNCHANGED serverVars
    /\ pc = "start"
    /\ \E o \in {"ok", "db_missing", "lookup_raised"} :
         LET running == update_task_status(task_results, task_id, "running",
                                           ResultNone, None) IN
         CASE o = "ok" -> /\ task_results' = running
                          /\ pc' = "config"
           [] o = "db_missing" ->
                TaskRaised(update_task_status(running, task_id, "failed",
                               ResultNone, "Database not found"),
                           "404: Database not found")
           [] OTHER -> TaskRaised(running, "lookup raised")
    /\ UNCHANGED <<route, response, kind, rows, idx, all_results, rowLocals, result_src, audit>>

\* orcid.py 66-79: the API key and the agents
LoadConfig ==
    /\ route = "v2"
    /\ UNCHANGED serverVars
    /\ pc = "config"
    /\ \E o \in {"ok", "no_key", "agents_raised"} :
         CASE o = "ok" -> /\ pc' = "query"
                          /\ UNCHANGED task_results
           [] o = "no_key" ->
                TaskRaised(update_task_status(task_results, task_id, "failed",
                               ResultNone, "API key not found"),
                           "400: API key not found")
           [] OTHER ->
                TaskRaised(update_task_status(task_results, task_id, "failed",
                               ResultNone, "Failed to initialize agents"),
                           "500: Failed to initialize agents")
    /\ UNCHANGED <<route, response, kind, rows, idx, all_results, rowLocals, result_src, audit>>

\* the list goes on from the entries it holds
NewResults_kept == all_results

\* orcid.py 94: all_results = []
NewResults == <<>>

\* orcid.py 84-99 and 319-324: the answer raw of the row source is read
QueryRowsOn(raw) ==
    LET resp == select_query_results_v2(raw)
        rs == RowsOf(resp)
        n == Len(rs)
    IN
    /\ query' = raw.t
    /\ IF resp.t = "raise"
       THEN /\ TaskRaised(task_results, "row source raised")
            /\ UNCHANGED <<route, response, kind, rows, idx, all_results,
                           rowLocals, result_src, audit>>
       ELSE /\ rows' = rs
            /\ all_results' = NewResults
            /\ result_src' = <<>>
            /\ UNCHANGED <<route, response, kind, rowLocals>>
            /\ IF \E i \in 1..n : IsRowDict(rs[i])
               THEN /\ idx' = 1
                    /\ pc' = "extract"
                    /\ audit' = [i \in 1..n |-> NewAudit]
                    /\ UNCHANGED task_results
               ELSE /\ idx' = n
                    /\ pc' = "done"
                    /\ audit' = [i \in 1..n |->
                                    [NewAudit EXCEPT !.extract = "skipped"]]
                    /\ task_results' =
                         update_task_status(task_results, task_id, "completed",
                             [t |-> "batch", results |-> <<>>,
                              total_processed |-> n, successful_matches |-> 0,
                              model_used |-> kind], None)

\* orcid.py 82-99 (and 319-324 when no row is a dict): the rows are read;
\* a row that is not a dict is passed over without a call
QueryRows ==
    /\ route = "v2"
    /\ UNCHANGED handlerVars
    /\ pc = "query"
    /\ \E raw \in McpReplies : QueryRowsOn(raw)

\* orcid.py 111-151: the extract answer a of the row is read
ExtractRowOn(a) ==
    LET p == safe_json_loads(a) IN
    IF a.t = "raise"
    THEN /\ TaskRaised(task_results, "extract agent raised")
         /\ audit' = [audit EXCEPT ![idx].extract = "raised",
                                    ![idx].raised = TRUE]
         /\ UNCHANGED <<route, response, kind, rows, idx, all_results, rowLocals, result_src>>
    ELSE IF a.t = "str" /\ ~IsDict(p)
    THEN NextRow(all_results, result_src,
                 [audit EXCEPT ![idx].extract = ExtractFact(a)])
    ELSE IF NamesMissing(DraftOf(p))
    THEN NextRow(all_results, result_src,
                 [audit EXCEPT ![idx].extract = ExtractFact(a)])
    ELSE /\ wanted' = DraftOf(p)
         /\ search_variants' = search_variants_of(DraftOf(p))
         /\ vi' = 1
         /\ search_results' = <<>>
         /\ pc' = "search"
         /\ audit' = [audit EXCEPT ![idx].extract = ExtractFact(a)]
         /\ UNCHANGED <<task_results, route, response, kind, rows, idx, all_results,
                        best_result, result_src>>

\* orcid.py 101-151: the extract agent is run on the row, its answer is read,
\* the names are checked and the variants are planned
ExtractRow ==
    /\ route = "v2"
    /\ UNCHANGED serverVars
    /\ pc = "extract"
    /\ \E a \in ExtractAnswers(kind) : ExtractRowOn(a)

\* orcid.py 174-200: the search answer a of the variant is read
SearchVariantOn(a) ==
    LET gathered == search_results \o SearchAppended(a)
        aud == [audit EXCEPT ![idx].searched = TRUE,
                             ![idx].raised = @ \/ a.t = "raise",
                             ![idx].nocand =
                                 /\ vi = Len(search_variants)
                                 /\ \A j \in 1..Len(gathered) :
                                      gathered[j].researchers = <<>>]
    IN
    IF VariantsLeft(a, vi, Len(search_variants))
    THEN /\ search_results' = gathered
         /\ vi' = vi + 1
         /\ audit' = aud
         /\ UNCHANGED <<task_results, route, response, pc, kind, rows, idx, all_results,
                        wanted, search_variants, best_result, result_src>>
    ELSE IF gathered = <<>>
    THEN NextRow(all_results, result_src, aud)
    ELSE /\ search_results' = gathered
         /\ pc' = "pick"
         /\ audit' = aud
         /\ UNCHANGED <<task_results, route, response, kind, rows, idx, all_results,
                        wanted, search_variants, vi, best_result,
                        result_src>>

\* orcid.py 154-200: one variant is searched; after the last one the row is
\* skipped when nothing was gathered
SearchVariant ==
    /\ route = "v2"
    /\ UNCHANGED serverVars
    /\ pc = "search"
    /\ \E a \in SearchAnswers(kind) : SearchVariantOn(a)

\* the identity id the picker's answer names, whatever its form
SelectedOf(a) ==
    IF a.t = "raise" THEN Undecided
    ELSE IF BestResultOf(a).t \in {"obj", "dict"} THEN BestResultOf(a).orcid_id
    ELSE Undecided

\* orcid.py 224-251 and 299-317: the picker answer a of the row is read
PickBestOn(a) ==
    LET b == BestResultOf(a)
        aud == [audit EXCEPT ![idx].ranked = TRUE,
                             ![idx].raised = @ \/ a.t = "raise",
                             ![idx].selected = SelectedOf(a)]
    IN
    IF a.t = "raise" \/ b = NoBest
    THEN NextRow(all_results, result_src, aud)
    ELSE IF WantsWorks(b)
    THEN /\ best_result' = b
         /\ pc' = "works"
         /\ audit' = aud
         /\ UNCHANGED <<task_results, route, response, kind, rows, idx, all_results,
                        wanted, search_variants, vi, search_results,
                        result_src>>
    ELSE NextRow(ListAppend(all_results, result_dict(b, rows[idx])),
                 ListAppend(result_src, idx), aud)

\* orcid.py 205-251 (and 299-317 when step 4 is not entered): the picker is
\* run and its answer is read
PickBest ==
    /\ route = "v2"
    /\ UNCHANGED serverVars
    /\ pc = "pick"
    /\ \E a \in PickerAnswers(kind) : PickBestOn(a)

\* orcid.py 271-317: the works answer a of the row is read
ExtractWorksOn(a) ==
    NextRow(ListAppend(all_results,
                       result_dict(AfterWorks(best_result, a), rows[idx])),
            ListAppend(result_src, idx),
            [audit EXCEPT ![idx].synth = TRUE,
                          ![idx].synthfail = WorksFailed(a),
                          ![idx].raised = @ \/ a.t = "raise"])

\* orcid.py 252-317: the works agent is run for the selected profile and the
\* entry of the row is appended
ExtractWorks ==
    /\ route = "v2"
    /\ UNCHANGED serverVars
    /\ pc = "works"
    /\ \E a \in WorksAnswers(kind) : ExtractWorksOn(a)

\* ------------------------------------- table-search-deepseek handler
Missing == "<missing>"
ListValue == "<list>"

\* dict.get(key, default) on a researcher of the agent's answer
Get(v, default) == IF v = Missing THEN default ELSE v

Researcher(id) ==
    [t |-> "dict", orcid |-> id, given_names |-> "Marie",
     family_names |-> "Curie", email |-> Missing, country |-> "France",
     affiliation |-> "Sorbonne", main_research_area |-> "physics",
     specific_research_area |-> "radioactivity"]
\* a researcher whose research areas are JSON arrays
ListedResearcher ==
    [Researcher("A") EXCEPT !.main_research_area = ListValue]
\* an item of 'researchers' that is a JSON string
StringResearcher ==
    [Researcher(Missing) EXCEPT !.t = "str"]

DeepseekDict(has, rs) == [t |-> "dict", has_researchers |-> has,
                          researchers |-> rs]

\* what Runner.run(deepseek agent, ...) can give
DeepseekAnswers ==
    {[t |-> "raise"]} \cup
    {Text(sh, DeepseekDict(TRUE, <<Researcher(id)>>)) :
        sh \in {"bare", "fenced"}, id \in OrcidIds} \cup
    {Text("prose", DeepseekDict(TRUE, <<Researcher("B"), Researcher("A")>>)),
     Text("bare", DeepseekDict(TRUE, <<Researcher(Missing)>>)),
     Text("bare", DeepseekDict(TRUE, <<ListedResearcher>>)),
     Text("bare", DeepseekDict(TRUE, <<StringResearcher>>)),
     Text("bare", DeepseekDict(TRUE, <<>>)),
     Text("bare", DeepseekDict(FALSE, <<>>)),
     Text("bare", Broken), Text("nojson", Broken), Text("empty", Broken)}

\* orcid.py 435: confidence of a found profile, in tenths
DeepseekConfidence == 8

\* models/orcid.py OrcidSearchResult(...).model_dump()
OrcidSearchResult(id, fn, ln, em, co, af, ma, sp, why, conf, row) ==
    [orcid_id |-> id, first_name |-> fn, last_name |-> ln, email |-> em,
     country |-> co, affiliation |-> af, main_research_area |-> ma,
     specific_research_area |-> sp, reasoning |-> why, confidence |-> conf,
     original_data |-> row]

\* orcid.py 442-454 and 463-475: the entry of a row without a profile
FallbackEntry(row, why) ==
    OrcidSearchResult("",
        RowGet(row, "first_name", RowGet(row, "prenom", "")),
        RowGet(row, "last_name", RowGet(row, "nom", "")),
        RowGet(row, "email", ""), RowGet(row, "country", ""),
        RowGet(row, "affiliation", RowGet(row, "institution", "")),
        None, None, why, 0, row)

\* orcid.py 406-476: the entry a row gets from the agent's answer
DeepseekEntry(a, row) ==
    IF a.t = "raise" THEN FallbackEntry(row, "Error processing")
    ELSE LET d == extract_json_from_deepseek_response(a) IN
         IF d.t = "dict" /\ d.has_researchers /\ d.researchers # <<>>
         THEN LET r == d.researchers[1] IN
              IF r.t # "dict" \/ r.main_research_area = ListValue
              THEN FallbackEntry(row, "Error processing")
              ELSE OrcidSearchResult(Get(r.orcid, ""), Get(r.given_names, ""),
                       Get(r.family_names, ""), Get(r.email, ""),
                       Get(r.country, ""), Get(r.affiliation, ""),
                       Get(r.main_research_area, ""),
                       Get(r.specific_research_area, ""),
                       "ORCID found using DeepSeek agent",
                       DeepseekConfidence, row)
         ELSE FallbackEntry(row, "No ORCID profile found using DeepSeek agent")

HttpError(code) == [t |-> "http_error", code |-> code]

\* orcid.py 486-490: an exception reaches the handler of the coroutine
DS_Raised(tr, msg) ==
    /\ task_results' = update_task_status(tr, task_id, "failed", ResultNone, msg)
    /\ pc' = "raised"
    /\ response' = HttpError(500)

\* orcid.py 346-367
DS_TaskBegin ==
    /\ route = "deepseek"
    /\ UNCHANGED serverVars
    /\ pc = "start"
    /\ \E o \in {"ok", "db_missing", "lookup_raised"} :
         LET running == update_task_status(task_results, task_id, "running",
                                           ResultNone, None) IN
         CASE o = "ok" -> /\ task_results' = running
                          /\ pc' = "config"
                          /\ UNCHANGED response
           [] o = "db_missing" ->
                DS_Raised(update_task_status(running, task_id, "failed",
                              ResultNone, "Database not found"),
                          "404: Database not found")
           [] OTHER -> DS_Raised(running, "lookup raised")
    /\ UNCHANGED <<route, kind, rows, idx, all_results, rowLocals, result_src, audit>>

\* orcid.py 370-378
DS_LoadConfig ==
    /\ route = "deepseek"
    /\ UNCHANGED serverVars
    /\ pc = "config"
    /\ \E o \in {"ok", "no_key", "raised"} :
         CASE o = "ok" -> /\ pc' = "query"
                          /\ UNCHANGED <<task_results, response>>
           [] o = "no_key" ->
                DS_Raised(update_task_status(task_results, task_id, "failed",
                              ResultNone, "API key not found"),
                          "400: API key not found")
           [] OTHER -> DS_Raised(task_results, "config raised")
    /\ UNCHANGED <<route, kind, rows, idx, all_results, rowLocals, result_src, audit>>

\* orcid.py 478-484: the batch is over
DS_Complete(res) ==
    /\ pc' = "done"
    /\ task_results' = update_task_status(task_results, task_id, "completed",
                           [t |-> "list", results |-> res], None)
    /\ response' = [t |-> "list", results |-> res]

\* orcid.py 381-397 (and 478-484 when no row is a dict): the rows are read
DS_QueryRows ==
    /\ route = "deepseek"
    /\ UNCHANGED handlerVars
    /\ pc = "query"
    /\ \E raw \in McpReplies :
         LET resp == select_query_results_v2(raw)
             rs == RowsOf(resp)
             n == Len(rs)
         IN
         /\ query' = raw.t
         /\ IF resp.t = "raise"
            THEN /\ DS_Raised(task_results, "row source raised")
                 /\ UNCHANGED <<route, kind, rows, idx, all_results, rowLocals,
                                result_src, audit>>
            ELSE /\ rows' = rs
                 /\ all_results' = <<>>
                 /\ result_src' = <<>>
                 /\ UNCHANGED <<route, kind, rowLocals>>
                 /\ IF \E i \in 1..n : IsRowDict(rs[i])
                    THEN /\ idx' = 1
                         /\ pc' = "ds_row"
                         /\ audit' = [i \in 1..n |-> NewAudit]
                         /\ UNCHANGED <<task_results, response>>
                    ELSE /\ idx' = n
                         /\ audit' = [i \in 1..n |->
                                         [NewAudit EXCEPT !.extract = "skipped"]]
                         /\ DS_Complete(<<>>)

\* orcid.py 399-476 (and 478-484 after the last row): one row
DS_Row ==
    /\ route = "deepseek"
    /\ UNCHANGED serverVars
    /\ pc = "ds_row"
    /\ \E a \in DeepseekAnswers :
         LET res == ListAppend(all_results, DeepseekEntry(a, rows[idx])) IN
         /\ all_results' = res
         /\ result_src' = ListAppend(result_src, idx)
         /\ audit' = [audit EXCEPT ![idx].raised = a.t = "raise",
                                   ![idx].extract = "ok"]
         /\ IF idx < Len(rows)
            THEN /\ idx' = idx + 1
                 /\ UNCHANGED <<task_results, response, pc>>
            ELSE /\ idx' = idx
                 /\ DS_Complete(res)
    /\ UNCHANGED <<route, kind, rows, rowLocals>>

\* ------------------------------------------- search-individual handler
\* models/orcid.py ResearcherInfoTable
ResearcherInfoTable(id, fn, ln, em, co, af, ma, sp) ==
    [t |-> "table", orcid_id |-> id, first_name |-> fn, last_name |-> ln,
     email |-> em, country |-> co, affiliation |-> af,
     main_research_area |-> ma, specific_research_area |-> sp]

\* orcid.py 708-723 (and 662-677, 796-811, 853-868, 978-993): the answer
\* that keeps the request's values
EmptyTable(info) ==
    ResearcherInfoTable("",
        RowGet(info, "first_name", RowGet(info, "prenom", "")),
        RowGet(info, "last_name", RowGet(info, "nom", "")),
        RowGet(info, "email", ""), RowGet(info, "country", ""),
        RowGet(info, "affiliation", RowGet(info, "affiliations", "")),
        "", "")

\* orcid.py 961-970
TableOf(b) ==
    ResearcherInfoTable(
        IF HasAttr(b) THEN b.orcid_id ELSE None,
        IF HasAttr(b) THEN b.first_name ELSE None,
        IF HasAttr(b) THEN b.last_name ELSE None,
        IF HasAttr(b) THEN b.email ELSE None,
        IF HasAttr(b) THEN b.country ELSE None,
        IF HasAttr(b) THEN b.affiliation ELSE None,
        IF HasAttr(b) THEN b.main_research_area ELSE None,
        IF HasAttr(b) THEN b.specific_research_area ELSE None)

\* orcid.py 760-789: what one variant's answer adds to search_results
Ind_SearchAppended(a) ==
    IF a.t = "raise" THEN <<>>
    ELSE IF a.t = "str"
         THEN IF IsDict(safe_json_loads(a)) THEN <<safe_json_loads(a)>>
              ELSE IF IsDict(extract_json_from_deepseek_response(a))
                   THEN <<extract_json_from_deepseek_response(a)>>
                   ELSE <<>>
         ELSE <<a>>

\* the handler returns
Ind_Return(resp, aud) ==
    /\ response' = resp
    /\ pc' = "done"
    /\ audit' = aud
    /\ ResetLocals
    /\ UNCHANGED <<task_results, route, kind, rows, idx, all_results, result_src>>

\* orcid.py 602-621: the API key and the agents
Ind_Begin ==
    /\ route = "individual"
    /\ UNCHANGED serverVars
    /\ pc = "start"
    /\ \/ /\ pc' = "extract"
          /\ UNCHANGED <<response, audit, rowLocals>>
          /\ UNCHANGED <<task_results, route, kind, rows, idx, all_results, result_src>>
       \/ Ind_Return(HttpError(500), audit)

\* orcid.py 641-737: the extract agent, the name check, the plan
Ind_Extract ==
    /\ route = "individual"
    /\ UNCHANGED serverVars
    /\ pc = "extract"
    /\ \E a \in ExtractAnswers(kind) :
         LET p == safe_json_loads(a)
             aud == [audit EXCEPT ![idx].extract = ExtractFact(a),
                                  ![idx].raised = a.t = "raise"]
         IN
         IF a.t = "raise" THEN Ind_Return(HttpError(500), aud)
         ELSE IF a.t = "str" /\ ~IsDict(p)
         THEN Ind_Return(EmptyTable(rows[idx]), aud)
         ELSE IF NamesMissing(DraftOf(p))
         THEN Ind_Return(EmptyTable(rows[idx]), aud)
         ELSE /\ wanted' = DraftOf(p)
              /\ search_variants' = search_variants_of(DraftOf(p))
              /\ vi' = 1
              /\ search_results' = <<>>
              /\ pc' = "search"
              /\ audit' = aud
              /\ UNCHANGED <<task_results, route, response, kind, rows, idx,
                             all_results, best_result, result_src>>

\* orcid.py 740-813: one variant is searched
Ind_Search ==
    /\ route = "individual"
    /\ UNCHANGED serverVars
    /\ pc = "search"
    /\ \E a \in SearchAnswers(kind) :
         LET gathered == search_results \o Ind_SearchAppended(a)
             aud == [audit EXCEPT ![idx].searched = TRUE,
                                  ![idx].raised = @ \/ a.t = "raise",
                                  ![idx].nocand =
                                      /\ vi = Len(search_variants)
                                      /\ \A j \in 1..Len(gathered) :
                                           gathered[j].researchers = <<>>]
         IN
         IF VariantsLeft(a, vi, Len(search_variants))
         THEN /\ search_results' = gathered
              /\ vi' = vi + 1
              /\ audit' = aud
              /\ UNCHANGED <<task_results, route, response, pc, kind, rows,
                             idx, all_results, wanted, search_variants,
                             best_result, result_src>>
         ELSE IF gathered = <<>>
         THEN Ind_Return(EmptyTable(rows[idx]), aud)
         ELSE /\ search_results' = gathered
              /\ pc' = "pick"
              /\ audit' = aud
              /\ UNCHANGED <<task_results, route, response, kind, rows, idx,
                             all_results, wanted, search_variants, vi,
                             best_result, result_src>>

\* orcid.py 819-913 (and 960-993 when step 4 is not entered): the picker
Ind_Pick ==
    /\ route = "individual"
    /\ UNCHANGED serverVars
    /\ pc = "pick"
    /\ \E a \in PickerAnswers(kind) :
         LET b == BestResultOf(a)
             aud == [audit EXCEPT ![idx].ranked = TRUE,
                                  ![idx].raised = @ \/ a.t = "raise",
                                  ![idx].selected = SelectedOf(a)]
         IN
         IF a.t = "raise" \/ b = NoBest
         THEN Ind_Return(EmptyTable(rows[idx]), aud)
         ELSE IF WantsWorks(b)
         THEN /\ best_result' = b
              /\ pc' = "works"
              /\ audit' = aud
              /\ UNCHANGED <<task_results, route, response, kind, rows, idx,
                             all_results, wanted, search_variants, vi,
                             search_results, result_src>>
         ELSE Ind_Return(TableOf(b), aud)

\* orcid.py 914-973: the works agent, then the answer
Ind_Works ==
    /\ route = "individual"
    /\ UNCHANGED serverVars
    /\ pc = "works"
    /\ \E a \in WorksAnswers(kind) :
         Ind_Return(TableOf(AfterWorks(best_result, a)),
                    [audit EXCEPT ![idx].synth = TRUE,
                                  ![idx].synthfail = WorksFailed(a),
                                  ![idx].raised = @ \/ a.t = "raise"])

\* ------------------------------------------------- the picker's decision
\* scores and confidence are counted in tenths
Totals == {0, 4, 9}
Confidences == {0, 4, 9, 12}
NoIndex == -1
ResultIndexes == {0, 1}

\* models/orcid.py 82-94 CandidateScore
CandidateScore(i, id, total) ==
    [source_result_index |-> i, orcid_id |-> id, total |-> total]
CandidateScores ==
    {CandidateScore(i, id, x) : i \in ResultIndexes, id \in OrcidIds, x \in Totals}

RECURSIVE SeqsUpTo(_, _)
SeqsUpTo(S, n) ==
    IF n = 0 THEN {<<>>}
    ELSE SeqsUpTo(S, n - 1) \cup
         {Append(q, x) : q \in {r \in SeqsUpTo(S, n - 1) : Len(r) = n - 1}, x \in S}

\* models/orcid.py 97-102 PickerReasoning, as the agent writes it
Reasonings ==
    [confidence : Confidences,
     selected_orcid_id : OrcidIds \cup {None},
     selected_from_result_index : ResultIndexes \cup {NoIndex},
     scores : SeqsUpTo(CandidateScores, MaxScores)]

NoReasoning == [confidence |-> 0, selected_orcid_id |-> None,
                selected_from_result_index |-> NoIndex, scores |-> <<>>]
NoDecision == [t |-> "none", result |-> NoBest, reasoning |-> NoReasoning]

\* models/orcid.py 99: confidence: float = Field(..., ge=0, le=1)
ConfidenceValid(c) == 0 =< c /\ c =< 10

\* agent_service.py 292-323 and orcid.py 205-248: the decision the pipeline
\* goes on with.  A picker built with an output type gives a PickerOutput
\* that passed validation, or the run raises; a picker built without gives
\* text, of which only the 'result' key is looked at.
AcceptedDecision(k, id, r) ==
    IF PickerForm(k) = "obj"
    THEN IF ConfidenceValid(r.confidence)
         THEN [t |-> "obj", result |-> Profile("obj", id), reasoning |-> r]
         ELSE NoDecision
    ELSE [t |-> "dict", result |-> Profile("dict", id), reasoning |-> r]

\* orcid.py 205-248: the picker is run once on the gathered result sets
RunPicker ==
    /\ pc = "pick"
    /\ \E id \in {"A", None}, r \in Reasonings :
         decision' = AcceptedDecision(kind, id, r)
    /\ pc' = "picked"
    /\ UNCHANGED <<task_results, next_task, origin, detached, task_id, route,
                   response, kind, rows, idx, all_results, rowLocals,
                   result_src, audit, query, call,
                   stub, first_run, storeVars>>

\* a row of a batch stands before the picker
InitPicker ==
    /\ task_id = 1
    /\ next_task = 1
    /\ task_results = [t \in TaskIds |-> IF t = 1 THEN NewTaskStatus ELSE NoTask]
    /\ origin = [t \in TaskIds |-> IF t = 1 THEN "v2" ELSE "none"]
    /\ detached = {}
    /\ route = "v2"
    /\ response = NoResponse
    /\ pc = "pick"
    /\ kind \in ModelKinds
    /\ rows = RowSource(1)
    /\ idx = 1
    /\ all_results = <<>>
    /\ wanted = Draft(<<"Marie", "Curie">>, <<None, "Sorbonne", None>>)
    /\ search_variants = search_variants_of(wanted)
    /\ vi = Len(search_variants)
    /\ search_results \in {<<SearchObj(<<"A">>)>>,
                           <<SearchObj(<<"A">>), SearchObj(<<"A">>)>>}
    /\ best_result = NoBest
    /\ result_src = <<>>
    /\ audit = <<NewAudit>>
    /\ decision = NoDecision
    /\ query = NoQuery
    /\ call = NoCall
    /\ stub = NoStub
    /\ first_run = NoRun
    /\ IdleStores

PickerSpec == InitPicker /\ [][RunPicker]_vars

\* a handler has been entered: the coroutine table_search_task of POST
\* /api/orcid/table-search_v2 awaited on the task create_task has stored, or
\* the coroutine of POST /api/orcid/table-search-deepseek, or the handler of
\* POST /api/orcid/search-individual on one researcher
Init ==
    /\ route \in {"v2", "deepseek", "individual"}
    /\ task_id = 1
    /\ next_task = IF route = "individual" THEN 0 ELSE 1
    /\ task_results = [t \in TaskIds |->
                          IF t = 1 /\ route # "individual"
                          THEN NewTaskStatus ELSE NoTask]
    /\ origin = [t \in TaskIds |-> IF t = 1 /\ route # "individual"
                                    THEN route ELSE "none"]
    /\ detached = {}
    /\ response = NoResponse
    /\ pc = "start"
    /\ kind \in IF route = "deepseek" THEN {"deepseek"} ELSE ModelKinds
    /\ rows = IF route = "individual" THEN RowSource(1) ELSE <<>>
    /\ idx = IF route = "individual" THEN 1 ELSE 0
    /\ all_results = <<>>
    /\ wanted = NoDraft
    /\ search_variants = <<>>
    /\ vi = 0
    /\ search_results = <<>>
    /\ best_result = NoBest
    /\ result_src = <<>>
    /\ audit = IF route = "individual" THEN <<NewAudit>> ELSE <<>>
    /\ decision = NoDecision
    /\ query = NoQuery
    /\ call = NoCall
    /\ stub = NoStub
    /\ first_run = NoRun
    /\ IdleStores

Next ==
    \/ TaskBegin
    \/ LoadConfig
    \/ QueryRows
    \/ ExtractRow
    \/ SearchVariant
    \/ PickBest
    \/ ExtractWorks
    \/ DS_TaskBegin
    \/ DS_LoadConfig
    \/ DS_QueryRows
    \/ DS_Row
    \/ Ind_Begin
    \/ Ind_Extract
    \/ Ind_Search
    \/ Ind_Pick
    \/ Ind_Works

Spec == Init /\ [][Next]_vars


\* ------------------------------------------------- planning the variants
\* the optional fields of an extracted identity: absent, empty or given
PlanOpts == {<<e, a, c>> : e \in {None, "", "m@c.fr"},
                           a \in {None, "", "Sorbonne"},
                           c \in {None, "", "France"}}

\* orcid.py 135-151 and 705-737: the names are checked and the variants
\* are planned
PlanVariants ==
    /\ pc = "names"
    /\ IF NamesMissing(wanted)
       THEN /\ pc' = "skipped"
            /\ UNCHANGED <<search_variants, vi>>
       ELSE /\ search_variants' = search_variants_of(wanted)
            /\ vi' = 1
            /\ pc' = "search"
    /\ UNCHANGED <<task_results, next_task, origin, detached, task_id, route,
                   response, kind, rows, idx, all_results, wanted,
                   search_results, best_result, result_src, audit, decision,
                   query, call,
                   stub, first_run, storeVars>>

\* the extract answer of a row has been read
InitPlan ==
    /\ route \in {"v2", "individual"}
    /\ pc = "names"
    /\ wanted \in {Draft(n, o) : n \in NameChoices, o \in PlanOpts}
    /\ task_id = 1
    /\ next_task = IF route = "individual" THEN 0 ELSE 1
    /\ task_results = [t \in TaskIds |->
                          IF t = 1 /\ route # "individual"
                          THEN [NewTaskStatus EXCEPT !.status = "running"]
                          ELSE NoTask]
    /\ origin = [t \in TaskIds |-> IF t = 1 /\ route # "individual"
                                    THEN route ELSE "none"]
    /\ detached = {}
    /\ response = NoResponse
    /\ kind \in {"openai", "deepseek"}
    /\ rows = RowSource(1)
    /\ idx = 1
    /\ all_results = <<>>
    /\ search_variants = <<>>
    /\ vi = 0
    /\ search_results = <<>>
    /\ best_result = NoBest
    /\ result_src = <<>>
    /\ audit = <<NewAudit>>
    /\ decision = NoDecision
    /\ query = IF route = "v2" THEN "rows" ELSE NoQuery
    /\ call = NoCall
    /\ stub = NoStub
    /\ first_run = NoRun
    /\ IdleStores

PlanSpec == InitPlan /\ [][PlanVariants]_vars

\* ------------------------------- directory tool search_orcid_researchers
\* orcid_improved.py 26: limit: int = None
NoLimit == -1

\* an item of 'expanded-result': a dict, with 'institution-name' a list or
\* null, or something that is not a dict
Item(id, inst) == [t |-> "dict", orcid |-> id, inst |-> inst]
StrItem == [t |-> "str", orcid |-> None, inst |-> "null"]
Items == {Item("A", "list"), Item("B", "null"), StrItem}

HttpReply(t, code, found, items) ==
    [t |-> t, code |-> code, found |-> found, items |-> items]

\* what requests.get(url) and resp.json() can give:
\*   raise   : requests raises (no connection, timeout)
\*   status  : an answer with a status other than 200
\*   notjson : status 200, resp.json() raises
\*   list    : status 200, the JSON document is an array
\*   null    : status 200, 'expanded-result' is null (nothing was found)
\*   missing : status 200, neither 'expanded-result' nor 'num-found'
\*   results : status 200, 'expanded-result' is a list of items
HttpReplies ==
    {HttpReply("raise", 0, 0, <<>>), HttpReply("notjson", 200, 0, <<>>),
     HttpReply("list", 200, 0, <<>>), HttpReply("null", 200, 0, <<>>),
     HttpReply("missing", 200, 0, <<>>)}
    \cup {HttpReply("status", c, 0, <<>>) : c \in {204, 404, 500}}
    \cup {HttpReply("results", 200, f, q) :
             f \in 0..(MaxFound + 1), q \in SeqsUpTo(Items, MaxFound)}

\* the keywords argument, split at the commas
KeywordLists == {<<"Marie", "Curie">>, <<"physics">>, <<"">>}

Calls == [keywords : KeywordLists, limit : {NoLimit} \cup 0..MaxFound,
          http : HttpReplies]

\* orcid_improved.py 48-57: the query sent to the expanded search
QueryOf(kws) == IF Len(kws) >= 2 THEN "given-names+family-name" ELSE "text"

Raised == [t |-> "raise", researchers |-> <<>>, total_found |-> 0,
           error |-> None]
SearchDictOf(rs, total, err) ==
    [t |-> "dict", researchers |-> rs, total_found |-> total, error |-> err]

\* researchers[:limit]
Sliced(q, limit) ==
    IF limit = NoLimit \/ limit >= Len(q) THEN q ELSE SubSeq(q, 1, limit)

\* orcid_improved.py 45-98: the body of the try
SearchBody(c) ==
    LET h == c.http IN
    IF h.t = "raise" THEN Raised
    ELSE IF h.code # 200
    THEN SearchDictOf(<<>>, 0, "HTTP error")
    ELSE IF h.t \in {"notjson", "list"} THEN Raised
    ELSE IF h.t \in {"null", "missing"} \/ h.items = <<>>
    THEN SearchDictOf(<<>>, h.found, None)
    ELSE IF \E i \in 1..Len(h.items) : h.items[i].t # "dict" THEN Raised
    ELSE SearchDictOf(
             Sliced([i \in 1..Len(h.items) |->
                        [orcid |-> h.items[i].orcid,
                         affiliation |-> IF h.items[i].inst = "list"
                                         THEN "Sorbonne" ELSE ""]],
                    c.limit),
             h.found, None)

\* the exception leaves the tool
Guarded_reraise(out) == out

\* orcid_improved.py 44 and 100-101: try ... except Exception
Guarded(out) ==
    IF out.t = "raise" THEN SearchDictOf(<<>>, 0, "Search error") ELSE out

search_orcid_researchers(c) == Guarded(SearchBody(c))

\* the tool is called and returns
SearchOrcid ==
    /\ route = "directory"
    /\ pc = "called"
    /\ response' = search_orcid_researchers(call)
    /\ pc' = "returned"
    /\ UNCHANGED <<task_results, next_task, origin, detached, task_id, route,
                   kind, rows, idx, all_results, rowLocals, result_src, audit,
                   decision, query, call,
                   stub, first_run, storeVars>>

InitDirectory ==
    /\ route = "directory"
    /\ pc = "called"
    /\ call \in Calls
    /\ stub = NoStub
    /\ first_run = NoRun
    /\ IdleStores
    /\ task_results = [t \in TaskIds |-> NoTask]
    /\ next_task = 0
    /\ origin = [t \in TaskIds |-> "none"]
    /\ detached = {}
    /\ task_id = 0
    /\ response = NoResponse
    /\ kind = "openai"
    /\ rows = <<>>
    /\ idx = 0
    /\ all_results = <<>>
    /\ wanted = NoDraft
    /\ search_variants = <<>>
    /\ vi = 0
    /\ search_results = <<>>
    /\ best_result = NoBest
    /\ result_src = <<>>
    /\ audit = <<>>
    /\ decision = NoDecision
    /\ query = NoQuery

DirectorySpec == InitDirectory /\ [][SearchOrcid]_vars

\* ------------------------- the directory tools and the remote directory
\* the tools of orcid_improved.py that call pub.orcid.org
RemoteTools == {"search_orcid_researchers", "get_researcher", "get_works"}

\* orcid_improved.py 103-113: no try; resp.json() when the status is 200
get_researcher(c) ==
    LET h == c.http IN
    IF h.t = "raise" THEN Raised
    ELSE IF h.code # 200 THEN [t |-> "dict", error |-> "resp.text"]
    ELSE IF h.t = "notjson" THEN Raised
    ELSE [t |-> "json", doc |-> h.t]

\* orcid_improved.py 198-220: no try; the groups of the answer, cut at limit
get_works(c) ==
    LET h == c.http IN
    IF h.t = "raise" THEN Raised
    ELSE IF h.code # 200 THEN [t |-> "dict", works |-> <<>>, error |-> "resp.text"]
    ELSE IF h.t \in {"notjson", "list", "null"} THEN Raised
    ELSE IF \E i \in 1..Len(Sliced(h.items, c.limit)) :
               Sliced(h.items, c.limit)[i].t # "dict"
    THEN Raised
    ELSE [t |-> "dict",
          works |-> [i \in 1..Len(Sliced(h.items, c.limit)) |->
                        [put_code |-> h.items[i].orcid]],
          error |-> None]

ToolResult(tool, c) ==
    CASE tool = "search_orcid_researchers" -> search_orcid_researchers(c)
      [] tool = "get_researcher" -> get_researcher(c)
      [] OTHER -> get_works(c)

\* orcid_improved.py 59, 112, 208: requests.get(url, headers=HEADERS) is
\* given no timeout, so it returns when the directory answers or the
\* connection fails, and not before
RequestsGet ==
    /\ route \in RemoteTools
    /\ pc = "called"
    /\ pc' = "waiting"
    /\ UNCHANGED <<task_results, next_task, origin, detached, task_id, route,
                   response, kind, rows, idx, all_results, rowLocals,
                   result_src, audit, decision, query, call,
                   stub, first_run, storeVars>>

\* the directory answers (or the connection fails): call.http arrives and
\* the tool goes on to its end
DirectoryAnswers ==
    /\ route \in RemoteTools
    /\ pc = "waiting"
    /\ response' = ToolResult(route, call)
    /\ pc' = IF ToolResult(route, call).t = "raise" THEN "raised" ELSE "returned"
    /\ UNCHANGED <<task_results, next_task, origin, detached, task_id, route,
                   kind, rows, idx, all_results, rowLocals, result_src, audit,
                   decision, query, call,
                   stub, first_run, storeVars>>

InitRemote ==
    /\ route \in RemoteTools
    /\ pc = "called"
    /\ call \in Calls
    /\ stub = NoStub
    /\ first_run = NoRun
    /\ IdleStores
    /\ task_results = [t \in TaskIds |-> NoTask]
    /\ next_task = 0
    /\ origin = [t \in TaskIds |-> "none"]
    /\ detached = {}
    /\ task_id = 0
    /\ response = NoResponse
    /\ kind = "openai"
    /\ rows = <<>>
    /\ idx = 0
    /\ all_results = <<>>
    /\ wanted = NoDraft
    /\ search_variants = <<>>
    /\ vi = 0
    /\ search_results = <<>>
    /\ best_result = NoBest
    /\ result_src = <<>>
    /\ audit = <<>>
    /\ decision = NoDecision
    /\ query = NoQuery

NextRemote == RequestsGet \/ DirectoryAnswers

\* the tool's own steps are taken when they can be; whether and when the
\* directory answers is not up to the program
RemoteSpec == InitRemote /\ [][NextRemote]_vars /\ WF_vars(RequestsGet)

\* -------------------------------------------------------- the API server
\* helpers.create_task: a fresh id, stored as pending
create_task(tr, id) == [tr EXCEPT ![id] = NewTaskStatus]

\* orcid.py 35-38 and 333-336: POST /api/orcid/table-search_v2.  The task is
\* created, the coroutine is added to a BackgroundTasks object built on the
\* spot, which is not part of the response and which nothing runs, and the
\* id is returned.
PostTableSearchV2 ==
    /\ next_task < MaxTasks
    /\ LET id == next_task + 1 IN
         /\ next_task' = id
         /\ task_results' = create_task(task_results, id)
         /\ origin' = [origin EXCEPT ![id] = "v2"]
         /\ detached' = detached \cup {id}
         /\ response' = [t |-> "started", task_id |-> id]
    /\ UNCHANGED <<task_id, route, pc, kind, rows, idx, all_results, rowLocals,
                   result_src, audit, decision, query, call,
                   stub, first_run, storeVars>>

\* orcid.py 339-344 and 492-493: POST /api/orcid/table-search-deepseek.  The
\* task is created and the coroutine is awaited by the handler itself.
PostTableSearchDeepseek ==
    /\ pc \in {"idle", "done", "raised"}
    /\ next_task < MaxTasks
    /\ LET id == next_task + 1 IN
         /\ next_task' = id
         /\ task_results' = create_task(task_results, id)
         /\ origin' = [origin EXCEPT ![id] = "deepseek"]
         /\ task_id' = id
    /\ route' = "deepseek"
    /\ pc' = "start"
    /\ kind' = "deepseek"
    /\ rows' = <<>>
    /\ idx' = 0
    /\ all_results' = <<>>
    /\ result_src' = <<>>
    /\ audit' = <<>>
    /\ query' = NoQuery
    /\ UNCHANGED <<detached, response, rowLocals, decision, call, stub,
                   first_run, storeVars>>

\* helpers.delete_task and tasks.py 33-42: DELETE /api/tasks/{task_id}
DeleteTask ==
    /\ \E t \in TaskIds :
         IF task_results[t].status # "absent"
         THEN /\ task_results' = [task_results EXCEPT ![t] = NoTask]
              /\ response' = [t |-> "deleted", task_id |-> t]
         ELSE /\ response' = HttpError(404)
              /\ UNCHANGED task_results
    /\ UNCHANGED <<next_task, origin, detached, task_id, route, pc, kind, rows,
                   idx, all_results, rowLocals, result_src, audit, decision,
                   query, call,
                   stub, first_run, storeVars>>

InitServe ==
    /\ task_results = [t \in TaskIds |-> NoTask]
    /\ next_task = 0
    /\ origin = [t \in TaskIds |-> "none"]
    /\ detached = {}
    /\ task_id = 0
    /\ route = "idle"
    /\ response = NoResponse
    /\ pc = "idle"
    /\ kind = "deepseek"
    /\ rows = <<>>
    /\ idx = 0
    /\ all_results = <<>>
    /\ wanted = NoDraft
    /\ search_variants = <<>>
    /\ vi = 0
    /\ search_results = <<>>
    /\ best_result = NoBest
    /\ result_src = <<>>
    /\ audit = <<>>
    /\ decision = NoDecision
    /\ query = NoQuery
    /\ call = NoCall
    /\ stub = NoStub
    /\ first_run = NoRun
    /\ IdleStores

\* a step of the coroutine the deepseek handler awaits
DS_Step == DS_TaskBegin \/ DS_LoadConfig \/ DS_QueryRows \/ DS_Row

NextServe ==
    \/ PostTableSearchV2
    \/ PostTableSearchDeepseek
    \/ DeleteTask
    \/ DS_TaskBegin
    \/ DS_LoadConfig
    \/ DS_QueryRows
    \/ DS_Row

\* The server with its event loop: a coroutine that is being awaited is
\* resumed when the call it waits for has returned or raised.
ServeSpec == InitServe /\ [][NextServe]_vars /\ WF_vars(DS_Step)

\* ------------------------------------------- the same batch, run twice
\* Deterministic stand-ins: the row source gives one reply, the extract
\* agent answers by the row, the search agent by the variant, the picker and
\* the works agent always the same.
StubVariants == {"name_only", "name_affiliation", "swapped"}

StubExtract(k) ==
    {a \in ExtractAnswers(k) :
        \/ a.t = "raise"
        \/ a.t = "obj" /\ a.email = None /\ a.lastname = "Curie"
                       /\ a.firstname \in {"Marie", None}
        \/ a.t = "str" /\ a.shape = "bare" /\ a.payload.t = "dict"
                       /\ a.payload.email = None
                       /\ a.payload.lastname = "Curie"
                       /\ a.payload.firstname \in {"Marie", None}}

StubSearch(k) ==
    {a \in SearchAnswers(k) :
        \/ a.t = "raise"
        \/ a.t = "obj" /\ a.researchers # <<>>
        \/ a.t = "str" /\ a.shape = "bare" /\ a.payload.t = "dict"
                       /\ a.payload.researchers # <<>>}

StubPicker(k) ==
    {a \in PickerAnswers(k) :
        \/ a.t = "raise"
        \/ a.t = "obj" /\ a.result.orcid_id \in {"A", None}
        \/ a.t = "str" /\ a.shape = "bare" /\ a.payload.t = "dict"
                       /\ a.payload.has_result
                       /\ a.payload.result.orcid_id = "A"}

StubWorks(k) ==
    {a \in WorksAnswers(k) :
        \/ a.t = "raise"
        \/ a.t = "obj" /\ a.main_research_area = "physics"}

Stubs(k) ==
    [t : {"stub"}, reply : McpReplies,
     extract : [1..MaxRows -> StubExtract(k)],
     search : [StubVariants -> StubSearch(k)],
     picker : StubPicker(k), works : StubWorks(k)]

St_QueryRows ==
    /\ route = "v2"
    /\ UNCHANGED handlerVars
    /\ pc = "query"
    /\ QueryRowsOn(stub.reply)

St_ExtractRow ==
    /\ route = "v2"
    /\ UNCHANGED serverVars
    /\ pc = "extract"
    /\ ExtractRowOn(stub.extract[rows[idx].line])

St_SearchVariant ==
    /\ route = "v2"
    /\ UNCHANGED serverVars
    /\ pc = "search"
    /\ SearchVariantOn(stub.search[search_variants[vi]])

St_PickBest ==
    /\ route = "v2"
    /\ UNCHANGED serverVars
    /\ pc = "pick"
    /\ PickBestOn(stub.picker)

St_ExtractWorks ==
    /\ route = "v2"
    /\ UNCHANGED serverVars
    /\ pc = "works"
    /\ ExtractWorksOn(stub.works)

\* orcid.py 35-40: the same request is posted again when the first run is
\* over; a new task is created and the coroutine is entered anew
RunAgain ==
    /\ pc \in {"done", "raised"}
    /\ first_run = NoRun
    /\ next_task < MaxTasks
    /\ first_run' = task_results[task_id]
    /\ LET id == next_task + 1 IN
         /\ next_task' = id
         /\ task_results' = create_task(task_results, id)
         /\ origin' = [origin EXCEPT ![id] = "v2"]
         /\ task_id' = id
    /\ pc' = "start"
    /\ query' = NoQuery
    /\ UNCHANGED <<detached, route, response, kind, rows, idx, all_results,
                   rowLocals, result_src, audit, decision, call, stub,
                   storeVars>>

InitTwice ==
    /\ route = "v2"
    /\ task_id = 1
    /\ next_task = 1
    /\ task_results = [t \in TaskIds |-> IF t = 1 THEN NewTaskStatus ELSE NoTask]
    /\ origin = [t \in TaskIds |-> IF t = 1 THEN "v2" ELSE "none"]
    /\ detached = {}
    /\ response = NoResponse
    /\ pc = "start"
    /\ kind \in {"openai", "deepseek"}
    /\ stub \in Stubs(kind)
    /\ first_run = NoRun
    /\ IdleStores
    /\ rows = <<>>
    /\ idx = 0
    /\ all_results = <<>>
    /\ wanted = NoDraft
    /\ search_variants = <<>>
    /\ vi = 0
    /\ search_results = <<>>
    /\ best_result = NoBest
    /\ result_src = <<>>
    /\ audit = <<>>
    /\ decision = NoDecision
    /\ query = NoQuery
    /\ call = NoCall

NextTwice ==
    \/ TaskBegin
    \/ LoadConfig
    \/ St_QueryRows
    \/ St_ExtractRow
    \/ St_SearchVariant
    \/ St_PickBest
    \/ St_ExtractWorks
    \/ RunAgain

TwiceSpec == InitTwice /\ [][NextTwice]_vars

\* ------------------------------------------------ outside the pipelines
\* the variables of the task store and of the ORCID pipelines
idleVars == <<task_results, next_task, origin, detached, task_id, kind, rows,
              all_results, rowLocals, result_src, audit, decision, query,
              call, stub, first_run>>

\* no task, no batch, no directory call
NoPipeline ==
    /\ task_results = [t \in TaskIds |-> NoTask]
    /\ next_task = 0
    /\ origin = [t \in TaskIds |-> "none"]
    /\ detached = {}
    /\ task_id = 0
    /\ kind = "openai"
    /\ rows = <<>>
    /\ all_results = <<>>
    /\ wanted = NoDraft
    /\ search_variants = <<>>
    /\ vi = 0
    /\ search_results = <<>>
    /\ best_result = NoBest
    /\ result_src = <<>>
    /\ audit = <<>>
    /\ decision = NoDecision
    /\ query = NoQuery
    /\ call = NoCall
    /\ stub = NoStub
    /\ first_run = NoRun

\* --------------------------------------------- the multi-database server
\* connection names, as the strings of characters they are
ConnNames == {<<"L", "a", "b">>, <<"D", "-", "1">>, <<"d", "_", "1">>}
Passwords == {"pw1", "pw2"}
\* the types a caller sends: one that add_db accepts, one that it refuses
DbTypes == {"postgres", "sqlite"}
Mask == "****"
Placeholder == "placeholder_password"

\* str.lower() and str.replace(old, new), character by character
Lower(c) == CASE c = "L" -> "l" [] c = "D" -> "d" [] OTHER -> c
Replaced(c, old, new) == IF c = old THEN new ELSE c

\* multi_db_mcp.py 136-137: the key of a connection name in the YAML file
KeyOf(conn_name) ==
    [i \in 1..Len(conn_name) |->
        Replaced(Replaced(Lower(conn_name[i]), " ", "_"), "-", "_")]

\* dict operations: d[k] = v, del d[k], d.get(k, default)
DictSet(d, k, v) == [x \in (DOMAIN d) \cup {k} |-> IF x = k THEN v ELSE d[x]]
DictDel(d, k) == [x \in (DOMAIN d) \ {k} |-> d[x]]
DictGet(d, k, default) == IF k \in DOMAIN d THEN d[k] ELSE default

Max(S) == CHOOSE x \in S : \A y \in S : y <= x

\* multi_db_mcp.py 119-121: the next available id
NextId(cfgs) ==
    LET existing_ids == {cfgs[k].id : k \in DOMAIN cfgs} IN
    IF existing_ids # {} THEN Max(existing_ids) + 1 ELSE 1

\* multi_db_mcp.py 123-134: the new entry of the YAML file
NewConfig(id, conn_name, password, dbtype) ==
    [id |-> id, conn_name |-> conn_name, type |-> dbtype,
     password |-> password]

\* config_loader.load_configs: one DatabaseConfig per entry, under its id;
\* of two entries with one id the later would win, and no two have
DatabaseConfig(cfg) ==
    [id |-> cfg.id, conn_name |-> cfg.conn_name,
     password |-> IF cfg.password # "" THEN cfg.password ELSE Placeholder,
     dbtype |-> cfg.type]
load_configs(cfgs) ==
    [i \in {cfgs[k].id : k \in DOMAIN cfgs} |->
        DatabaseConfig(cfgs[CHOOSE k \in DOMAIN cfgs : cfgs[k].id = i])]

\* multi_db_mcp.py 70-79 and 147-158: DBS as built from load_configs()
Loaded(cfgs) ==
    [i \in DOMAIN load_configs(cfgs) |->
        [conn_name |-> load_configs(cfgs)[i].conn_name,
         password |-> load_configs(cfgs)[i].password,
         dbtype |-> load_configs(cfgs)[i].dbtype]]

ToolError == [t |-> "tool_error"]

\* multi_db_mcp.py 88-173: what add_db leaves in the file and in DBS, and
\* what it returns
add_db(cfgs, dbs, conn_name, password, dbtype) ==
    IF dbtype \notin {"postgres", "mysql"}
    THEN [configs |-> cfgs, DBS |-> dbs, result |-> ToolError]
    ELSE LET next_id == NextId(cfgs)
             written == DictSet(cfgs, KeyOf(conn_name),
                                NewConfig(next_id, conn_name, password, dbtype))
         IN [configs |-> written, DBS |-> Loaded(written),
             result |-> [t |-> "added", id |-> next_id,
                         conn_name |-> conn_name, dbtype |-> dbtype,
                         message |-> <<conn_name, next_id, dbtype>>]]

\* the record is copied as it is stored
safe_config_copied(db_id, config) ==
    [id |-> db_id, conn_name |-> config.conn_name, dbtype |-> config.dbtype,
     password |-> config.password]

\* multi_db_mcp.py 191-201 and 273-283: the record given out for a database
safe_config(db_id, config) ==
    [id |-> db_id, conn_name |-> config.conn_name, dbtype |-> config.dbtype,
     password |-> Mask]

\* multi_db_mcp.py 182-207: the records of all databases (their order is
\* left out)
list_dbs(dbs) == {safe_config(i, dbs[i]) : i \in DOMAIN dbs}

\* the tool add_db is called
AddDb ==
    /\ route = "databases"
    /\ NextId(configs) <= MaxDbId
    /\ \E n \in ConnNames, p \in Passwords, ty \in DbTypes :
         LET r == add_db(configs, DBS, n, p, ty) IN
         /\ configs' = r.configs
         /\ DBS' = r.DBS
         /\ response' = r.result
    /\ UNCHANGED <<idleVars, route, pc, idx, bulkVars>>

\* the tool list_dbs is called
ListDbs ==
    /\ route = "databases"
    /\ response' = [t |-> "list", dbs |-> list_dbs(DBS)]
    /\ UNCHANGED <<idleVars, route, pc, idx, dbVars, bulkVars>>

\* multi_db_mcp.py 266-284: the tool get_db_by_conn_name is called
GetDbByConnName ==
    /\ route = "databases"
    /\ \E n \in ConnNames :
         IF \E i \in DOMAIN DBS : DBS[i].conn_name = n
         THEN LET i == CHOOSE i \in DOMAIN DBS : DBS[i].conn_name = n IN
              response' = [t |-> "db", db |-> safe_config(i, DBS[i])]
         ELSE response' = ToolError
    /\ UNCHANGED <<idleVars, route, pc, idx, dbVars, bulkVars>>

\* multi_db_mcp.py 209-242: the tool remove_db is called
RemoveDb ==
    /\ route = "databases"
    /\ \E id \in 1..MaxDbId :
         IF id \notin DOMAIN DBS
         THEN /\ response' = ToolError
              /\ UNCHANGED dbVars
         ELSE /\ configs' = DictDel(configs,
                               CHOOSE k \in DOMAIN configs : configs[k].id = id)
              /\ DBS' = DictDel(DBS, id)
              /\ response' = [t |-> "removed", id |-> id]
    /\ UNCHANGED <<idleVars, route, pc, idx, bulkVars>>

\* ------------------------------------- the API in front of that server
\* str(n) of a database id
Digits == <<"0", "1", "2", "3", "4", "5", "6", "7", "8", "9">>
IntStr(n) == IF n < 10 THEN Digits[n + 1] ELSE "10+"

\* mcp_service.py 99-165: the answer of the tool, as call_mcp_add_db gives it
\* to its caller; parse_mcp_response finds nothing in an error answer
call_mcp_add_db(transport, result) ==
    IF transport # "ok"
    THEN [success |-> FALSE, error |-> "Failed to add database"]
    ELSE IF result.t = "tool_error"
    THEN [success |-> FALSE, error |-> "tool error"]
    ELSE [success |-> TRUE, message |-> "added successfully", data |-> result]

\* database.py 19-77: POST /api/databases
CreateDatabaseApi ==
    /\ route = "databases"
    /\ NextId(configs) <= MaxDbId
    /\ \E n \in ConnNames, p \in Passwords, ty \in DbTypes,
          transport \in {"ok", "unreachable"} :
         LET r == IF transport = "ok" THEN add_db(configs, DBS, n, p, ty)
                  ELSE [configs |-> configs, DBS |-> DBS, result |-> ToolError]
             mcp_result == call_mcp_add_db(transport, r.result)
             actual_db_id == DictGet(mcp_result, "db_id", "1")
         IN
         /\ configs' = r.configs
         /\ DBS' = r.DBS
         /\ response' = IF ~mcp_result.success THEN HttpError(500)
                        ELSE [t |-> "created", id |-> actual_db_id, name |-> n,
                              dbtype |-> ty, status |-> "connected"]
    /\ UNCHANGED <<idleVars, route, pc, idx, bulkVars>>

\* mcp_service.py 201-222: the records of list_dbs as call_mcp_list_dbs
\* hands them on
call_mcp_list_dbs(result) ==
    [success |-> TRUE,
     data |-> {[id |-> IntStr(db.id), name |-> db.conn_name,
                type |-> db.dbtype, password |-> Mask,
                status |-> "connected"] : db \in result}]

CallMcpListDbs ==
    /\ route = "databases"
    /\ response' = [t |-> "api_list", dbs |-> call_mcp_list_dbs(list_dbs(DBS)).data]
    /\ UNCHANGED <<idleVars, route, pc, idx, dbVars, bulkVars>>

\* the YAML file the server starts from: empty, or holding one database
StartFiles ==
    {EmptyDict} \cup
    {DictSet(EmptyDict, KeyOf(n), NewConfig(1, n, p, "postgres")) :
        n \in {<<"L", "a", "b">>}, p \in Passwords}

InitDb ==
    /\ NoPipeline
    /\ route = "databases"
    /\ pc = "idle"
    /\ idx = 0
    /\ response = NoResponse
    /\ configs \in StartFiles
    /\ DBS = Loaded(configs)
    /\ researchers_data = <<>>
    /\ session = NoSession
    /\ chercheurs = {}
    /\ saved_researchers = <<>>
    /\ duplicate_researchers = <<>>
    /\ failed_researchers = <<>>

NextDb ==
    \/ AddDb
    \/ ListDbs
    \/ GetDbByConnName
    \/ RemoveDb
    \/ CreateDatabaseApi
    \/ CallMcpListDbs

DbSpec == InitDb /\ [][NextDb]_vars

\* ------------------------------------------- the researcher service
\* a value of 'affiliation' that is not a string (a JSON number)
NotAString == "<number>"

\* an entry of the request: its ORCID id and its affiliation
Entries == [orcid_id : {None, "", "A", "B"},
            affiliation : {"Sorbonne", NotAString}]

\* researcher.py 10-20: a row of table chercheurs; n is history, the
\* position of the entry the row was inserted for (0: it was there before)
Chercheur(id, orcid_id, n) == [id |-> id, orcid_id |-> orcid_id, n |-> n]

\* the tables the call can find
StartTables == SUBSET {Chercheur(1, "A", 0), Chercheur(2, "", 0)}

\* researcher.py 18: orcid_id is unique; NULL is never equal to anything
UniqueViolated(table, orcid_id) ==
    orcid_id # None /\ \E r \in table : r.orcid_id = orcid_id

\* researcher.py 14: the next primary key
NewId(table) == IF table = {} THEN 1 ELSE Max({r.id : r \in table}) + 1

OpenSession(table) == [state |-> "active", rows |-> table]

\* researcher_service.py 170-177: the entry is reported as failed
Failed(e, n) == [orcid_id |-> e.orcid_id, error |-> "str(e)", n |-> n]

\* researcher_service.py 165-167: session.add, flush, refresh.  A flush the
\* database refuses rolls the transaction back and leaves the session
\* unusable until rollback() is called; a session in that state raises
Flush(sess, table, orcid_id, n) ==
    IF sess.state # "active"
    THEN [session |-> sess, raised |-> TRUE]
    ELSE IF UniqueViolated(sess.rows, orcid_id)
    THEN [session |-> [state |-> "rolled_back", rows |-> table],
          raised |-> TRUE]
    ELSE [session |-> [sess EXCEPT !.rows =
                          @ \cup {Chercheur(NewId(sess.rows), orcid_id, n)}],
          raised |-> FALSE]

\* researcher_service.py 131-177: one entry of researchers_data
BulkEntry ==
    /\ route = "bulk"
    /\ pc = "loop"
    /\ idx <= Len(researchers_data)
    /\ LET e == researchers_data[idx]
           f == Flush(session, chercheurs, e.orcid_id, idx)
       IN
       IF Truthy(e.orcid_id) /\ session.state # "active"
       THEN /\ failed_researchers' = Append(failed_researchers, Failed(e, idx))
            /\ UNCHANGED <<session, saved_researchers, duplicate_researchers>>
       ELSE IF Truthy(e.orcid_id) /\
               \E r \in session.rows : r.orcid_id = e.orcid_id
       THEN /\ duplicate_researchers' =
                 Append(duplicate_researchers,
                        [orcid_id |-> e.orcid_id,
                         existing_id |->
                            (CHOOSE r \in session.rows :
                                r.orcid_id = e.orcid_id).id,
                         n |-> idx])
            /\ UNCHANGED <<session, saved_researchers, failed_researchers>>
       ELSE IF e.affiliation = NotAString
       THEN /\ failed_researchers' = Append(failed_researchers, Failed(e, idx))
            /\ UNCHANGED <<session, saved_researchers, duplicate_researchers>>
       ELSE /\ session' = f.session
            /\ IF f.raised
               THEN /\ failed_researchers' =
                         Append(failed_researchers, Failed(e, idx))
                    /\ UNCHANGED saved_researchers
               ELSE /\ saved_researchers' =
                         Append(saved_researchers,
                                Chercheur(NewId(session.rows), e.orcid_id, idx))
                    /\ UNCHANGED failed_researchers
            /\ UNCHANGED duplicate_researchers
    /\ idx' = idx + 1
    /\ UNCHANGED <<idleVars, route, pc, response, dbVars, researchers_data,
                   chercheurs>>

\* researcher_service.py 179-197 and researchers.py 49-53: the commit and
\* the result; a commit that raises leaves the call, and the endpoint rolls
\* back and answers 500
BulkCommit ==
    /\ route = "bulk"
    /\ pc = "loop"
    /\ idx > Len(researchers_data)
    /\ IF session.state = "active"
       THEN /\ chercheurs' = session.rows
            /\ session' = session
            /\ pc' = "returned"
            /\ response' = [t |-> "bulk",
                            saved_count |-> Len(saved_researchers),
                            duplicate_count |-> Len(duplicate_researchers),
                            failed_count |-> Len(failed_researchers),
                            chercheurs |-> saved_researchers,
                            duplicates |-> duplicate_researchers,
                            failed |-> failed_researchers]
       ELSE /\ chercheurs' = chercheurs
            /\ session' = OpenSession(chercheurs)
            /\ pc' = "raised"
            /\ response' = HttpError(500)
    /\ UNCHANGED <<idleVars, route, idx, dbVars, researchers_data,
                   saved_researchers, duplicate_researchers,
                   failed_researchers>>

InitBulk ==
    /\ NoPipeline
    /\ IdleDbs
    /\ route = "bulk"
    /\ pc = "loop"
    /\ idx = 1
    /\ response = NoResponse
    /\ researchers_data \in SeqsUpTo(Entries, MaxEntries)
    /\ chercheurs \in StartTables
    /\ session = OpenSession(chercheurs)
    /\ saved_researchers = <<>>
    /\ duplicate_researchers = <<>>
    /\ failed_researchers = <<>>

NextBulk == BulkEntry \/ BulkCommit

BulkSpec == InitBulk /\ [][NextBulk]_vars

\* ------------------------------------------------------------------ claims

\* C1: when a batch finishes, its result list has exactly one entry per row
\* the row source returned: len(results) = len(rows).
C1_OneEntryPerRow ==
    (route \in {"v2", "deepseek"} /\ task_results[task_id].status = "completed")
        => Len(task_results[task_id].result.results) = Len(rows)

\* C2: a task created by POST /api/orcid/table-search_v2 does not stay
\* pending for ever: its status eventually is completed or failed (or the
\* task was deleted meanwhile).
C2_LeavesPending ==
    \A t \in TaskIds :
        (origin[t] = "v2" /\ task_results[t].status = "pending")
            ~> (task_results[t].status \in {"completed", "failed", "absent"})

\* C3: an exception raised while one row is processed does not abort the
\* batch: when the coroutine is over every row was processed and the task is
\* completed.
C3_RowExceptionKeepsBatch ==
    (/\ route \in {"v2", "deepseek"}
     /\ pc \in {"done", "raised"}
     /\ \E i \in DOMAIN audit : audit[i].raised)
        => /\ task_results[task_id].status = "completed"
           /\ \A j \in DOMAIN audit : audit[j].extract # "pending"


\* row i has left the loop body
RowOver(i) == i < idx \/ pc \in {"done", "raised"}

\* the entries built from row i
EntriesOf(i) == {j \in 1..Len(all_results) : result_src[j] = i}

\* C4: every entry of a batch result carries, as original_data, the raw row
\* it was built from, in the running list and in the stored task result.
C4_OriginalDataKept ==
    route \in {"v2", "deepseek"} =>
        /\ \A j \in 1..Len(all_results) :
             all_results[j].original_data = rows[result_src[j]]
        /\ task_results[task_id].status = "completed" =>
             \A j \in 1..Len(task_results[task_id].result.results) :
                 task_results[task_id].result.results[j].original_data
                     = rows[result_src[j]]

\* a completed table-search_v2 batch with an entry for the second row that
\* carries a profile, and one that carries none
C4_Witness ==
    /\ route = "v2"
    /\ task_results[task_id].status = "completed"
    /\ \E j, k \in 1..Len(all_results) :
         /\ result_src[j] = 2
         /\ Truthy(all_results[j].orcid_id)
         /\ ~Truthy(all_results[k].orcid_id)

\* C5: for a row whose extracted identity lacks a first or a last name the
\* search agent is never invoked, and the outcome of the row names no
\* profile.
C5_NoNameNoSearch ==
    \A i \in DOMAIN audit :
        audit[i].extract = "noname" =>
            /\ ~audit[i].searched
            /\ \A j \in EntriesOf(i) : ~Truthy(all_results[j].orcid_id)
            /\ (route = "individual" /\ response.t = "table")
                   => ~Truthy(response.orcid_id)

\* a finished batch in which one row lacked a name and another was searched
C5_Witness ==
    /\ pc = "done"
    /\ \E i, k \in DOMAIN audit :
         /\ audit[i].extract = "noname"
         /\ audit[k].searched

\* C6: a row whose extract answer is a string that is not a JSON object is
\* marked failed with reason extraction_unparseable, and is not searched.
C6_UnparseableMarkedFailed ==
    \A i \in DOMAIN audit :
        (route = "v2" /\ audit[i].extract = "unparseable" /\ RowOver(i)) =>
            /\ ~audit[i].searched
            /\ \E j \in EntriesOf(i) :
                 /\ "reasoning" \in DOMAIN all_results[j]
                 /\ all_results[j].reasoning = "extraction_unparseable"

\* C7: a row all of whose variants gave no candidate or failed still goes to
\* the ranker and ends with an entry that names no profile.
C7_NoCandidateStillRanked ==
    \A i \in DOMAIN audit :
        (route = "v2" /\ audit[i].nocand /\ RowOver(i)) =>
            /\ audit[i].ranked
            /\ EntriesOf(i) # {}
            /\ \A j \in EntriesOf(i) : ~Truthy(all_results[j].orcid_id)

\* C8: when the ranker selected the candidate with identity id X for a row,
\* the row's entry carries identity id X, for an object answer and for a JSON
\* string answer alike.
C8_SelectedIdCarried ==
    \A i \in DOMAIN audit :
        (route = "v2" /\ audit[i].selected \in OrcidIds /\ RowOver(i)
         /\ pc # "raised") =>
            /\ EntriesOf(i) # {}
            /\ \A j \in EntriesOf(i) : all_results[j].orcid_id = audit[i].selected


\* the scored occurrence w is the best one: the highest total, and among
\* equal totals the lowest source_result_index
IsBest(sc, w) ==
    \A o \in 1..Len(sc) :
        \/ sc[o].total < sc[w].total
        \/ /\ sc[o].total = sc[w].total
           /\ sc[w].source_result_index =< sc[o].source_result_index

\* C9: the decision names the scored occurrence with the highest total, ties
\* going to the lower source_result_index, and selected_from_result_index is
\* the result set of that occurrence.
C9_SelectsBest ==
    (/\ decision.t \in {"obj", "dict"}
     /\ decision.reasoning.selected_orcid_id # None
     /\ decision.reasoning.scores # <<>>) =>
        \E w \in 1..Len(decision.reasoning.scores) :
            LET sc == decision.reasoning.scores IN
            /\ IsBest(sc, w)
            /\ decision.reasoning.selected_orcid_id = sc[w].orcid_id
            /\ decision.reasoning.selected_from_result_index
                   = sc[w].source_result_index
            /\ decision.result.orcid_id = sc[w].orcid_id

\* C10: in every decision the confidence is the total of the selected
\* candidate, and lies in [0,1].
C10_ConfidenceIsTotal ==
    decision.t \in {"obj", "dict"} =>
        /\ ConfidenceValid(decision.reasoning.confidence)
        /\ \A w \in 1..Len(decision.reasoning.scores) :
             LET c == decision.reasoning.scores[w] IN
             (/\ c.orcid_id = decision.reasoning.selected_orcid_id
              /\ c.source_result_index
                     = decision.reasoning.selected_from_result_index)
                 => decision.reasoning.confidence = c.total

\* row i ended without a winning identity id
NoWinner(i) ==
    IF route = "deepseek"
    THEN \A j \in EntriesOf(i) : ~Truthy(all_results[j].orcid_id)
    ELSE audit[i].selected \notin OrcidIds

\* C11: for a row without a winning identity id the works agent is not run,
\* and the topic fields of the row's entry are both the empty string.
C11_NoWinnerEmptyTopics ==
    \A i \in DOMAIN audit :
        (route \in {"v2", "deepseek"} /\ RowOver(i) /\ NoWinner(i)) =>
            /\ ~audit[i].synth
            /\ \A j \in EntriesOf(i) :
                 /\ all_results[j].main_research_area = ""
                 /\ all_results[j].specific_research_area = ""

RequestFailed(c) ==
    \/ c.http.t \in {"raise", "status", "notjson", "list"}
    \/ \E i \in 1..Len(c.http.items) : c.http.items[i].t # "dict"

\* C13: search_orcid_researchers never raises to its caller, and after a
\* failed request it returns the empty researcher list with total_found 0.
C13_SearchNeverRaises ==
    (route = "directory" /\ pc = "returned") =>
        /\ response.t = "dict"
        /\ RequestFailed(call) =>
              /\ response.researchers = <<>>
              /\ response.total_found = 0

\* the tool has returned after requests raised
C13_Witness ==
    /\ route = "directory"
    /\ pc = "returned"
    /\ call.http.t = "raise"
    /\ response.error = "Search error"

\* C14: a table-search_v2 batch whose row source gave no row ends completed,
\* with results = [], total_processed = 0 and successful_matches = 0.
C14_ZeroRowsCompleted ==
    (/\ route = "v2"
     /\ pc \in {"done", "raised"}
     /\ query \in {"rows", "garbage", "rpc_error"}
     /\ rows = <<>>) =>
        /\ task_results[task_id].status = "completed"
        /\ task_results[task_id].error = None
        /\ task_results[task_id].result.results = <<>>
        /\ task_results[task_id].result.total_processed = 0
        /\ task_results[task_id].result.successful_matches = 0

\* the batch is over and the table had no row
C14_Witness ==
    /\ route = "v2"
    /\ pc = "done"
    /\ query = "rows"
    /\ rows = <<>>
    /\ task_results[task_id].status = "completed"

\* the entries of the list are in the order of the rows they carry
InRowOrder(res) ==
    \A j, k \in 1..Len(res) :
        j < k => res[j].original_data.line < res[k].original_data.line

\* C15: the entries of a batch result are in the order of the input rows
\* they were built from, in the running list and in the stored task result.
C15_RowOrderKept ==
    route \in {"v2", "deepseek"} =>
        /\ InRowOrder(all_results)
        /\ task_results[task_id].status = "completed" =>
             InRowOrder(task_results[task_id].result.results)

\* a completed batch with entries of two rows
C15_Witness ==
    /\ route \in {"v2", "deepseek"}
    /\ task_results[task_id].status = "completed"
    /\ Len(task_results[task_id].result.results) >= 2

\* the row source could not be queried: the database id is not among the
\* connected ones, or the query did not give the rows of the table
SourceUnavailable ==
    \/ query \in SourceFailures
    \/ task_results[task_id].error = "404: Database not found"

\* C16: when the row source of a table-search_v2 batch cannot be queried,
\* the task ends failed with an error message, and no extract, search, picker
\* or works call was made for any row.
C16_SourceFailureFailsTask ==
    (route = "v2" /\ pc \in {"done", "raised"} /\ SourceUnavailable) =>
        /\ task_results[task_id].status = "failed"
        /\ task_results[task_id].error # None
        /\ \A i \in DOMAIN audit :
             /\ audit[i].extract \in {"pending", "skipped"}
             /\ ~audit[i].searched
             /\ ~audit[i].ranked
             /\ ~audit[i].synth

VariantOrder == <<"name_only", "name_affiliation", "name_email",
                  "name_country", "swapped">>
PositionOf(v) == CHOOSE k \in 1..Len(VariantOrder) : VariantOrder[k] = v
Planned(v) == \E i \in 1..Len(search_variants) : search_variants[i] = v
NonEmpty(x) == x # None /\ x # ""

\* C18: for an identity with both names the planned variants are name_only,
\* name_affiliation iff the affiliation is non-empty, name_email iff the
\* email is non-empty, name_country iff the country is non-empty, and
\* swapped, in that order and each at most once: between 2 and 5 variants.
C18_PlannedVariants ==
    pc = "search" =>
        /\ Planned("name_only")
        /\ Planned("swapped")
        /\ Planned("name_affiliation") <=> NonEmpty(wanted.affiliation)
        /\ Planned("name_email") <=> NonEmpty(wanted.email)
        /\ Planned("name_country") <=> NonEmpty(wanted.country)
        /\ \A i, j \in 1..Len(search_variants) :
             i < j => PositionOf(search_variants[i]) < PositionOf(search_variants[j])
        /\ Len(search_variants) \in 2..5

\* all five variants are planned
C18_Witness ==
    /\ pc = "search"
    /\ Len(search_variants) = 5
    /\ NonEmpty(wanted.email)

\* C19: the list of result sets handed to the picker has one entry per
\* attempted variant, in attempt order, so that index i of the list is the
\* i-th variant.
C19_OneResultSetPerVariant ==
    pc = "pick" => Len(search_results) = Len(search_variants)

\* C20: within a row every planned variant is attempted exactly once, also
\* after a variant whose call raised or whose answer was unusable: the
\* search starts with the first variant, each call is followed by the next
\* variant, and the row leaves the search only after the last one.
C20_AllVariantsAttempted ==
    [][/\ (pc # "search" /\ pc' = "search") => vi' = 1
       /\ pc = "search" =>
            IF vi < Len(search_variants)
            THEN /\ pc' = "search"
                 /\ vi' = vi + 1
                 /\ search_variants' = search_variants
                 /\ idx' = idx
            ELSE pc' # "search"]_vars

\* the last variant of a row is attempted after all earlier ones raised or
\* gave an unusable answer
C20_Witness ==
    /\ route = "v2"
    /\ pc = "search"
    /\ vi > 1
    /\ vi = Len(search_variants)
    /\ audit[idx].raised
    /\ search_results = <<>>

\* C17: when the first run of a batch completed and the same batch is run
\* again with the same deterministic stand-ins, the second run completes
\* with the same stored result, field for field.
C17_SecondRunSame ==
    (/\ first_run.status = "completed"
     /\ pc \in {"done", "raised"}
     /\ query # NoQuery) =>
        /\ task_results[task_id].status = "completed"
        /\ task_results[task_id].result = first_run.result

\* both runs are over, each with an entry for two rows, one with topics
C17_Witness ==
    /\ first_run.status = "completed"
    /\ pc = "done"
    /\ task_id = 2
    /\ Len(task_results[task_id].result.results) = 2
    /\ \E j \in 1..2 :
         task_results[task_id].result.results[j].main_research_area = "physics"

\* the stages of one row, in the order of the loop body
RowStages == <<"extract", "search", "pick", "works">>
StageNo(p) == IF \E k \in 1..Len(RowStages) : RowStages[k] = p
              THEN CHOOSE k \in 1..Len(RowStages) : RowStages[k] = p
              ELSE Len(RowStages) + 1

\* C21: a row of the v2 batch goes through extracting, searching, ranking
\* and synthesizing in that order: a step that stays on the row either
\* searches the next variant, or enters the next stage, or ends the row; the
\* ranker is entered once, after the last planned variant was attempted, and
\* the synthesis is entered once, from the ranker; a step that leaves the row
\* starts the next one at its extraction; the row can be ended at any stage
C21_StagesInOrder ==
    [][(route = "v2" /\ StageNo(pc) <= Len(RowStages)) =>
          IF idx' = idx
          THEN \/ StageNo(pc') > Len(RowStages)
               \/ /\ pc = "search" /\ pc' = "search" /\ vi' = vi + 1
                  /\ vi < Len(search_variants)
               \/ /\ StageNo(pc') = StageNo(pc) + 1
                  /\ pc' = "pick" => vi = Len(search_variants)
                  /\ pc' = "pick" => ~audit[idx].ranked
                  /\ pc' = "works" => audit'[idx].ranked /\ ~audit[idx].synth
          ELSE idx' = idx + 1 /\ pc' = "extract"]_vars
\* the second row of a batch has reached its synthesis after two variants
C21_Witness ==
    /\ route = "v2" /\ pc = "works" /\ idx = 2 /\ vi >= 2
    /\ audit[idx].ranked /\ audit[1].ranked

\* C22: every call of a directory tool (search, profile fetch, works fetch)
\* comes to an end, with an answer or as a failed call, also when the
\* directory never answers
C22_DirectoryCallEnds ==
    (route \in RemoteTools /\ pc = "called") ~> (pc \in {"returned", "raised"})

\* how far a status is along pending -> running -> (completed | failed)
StatusNo(st) == CASE st \in {"absent", "pending"} -> 0
                  [] st = "running" -> 1
                  [] OTHER -> 2

\* C23: no step of a pipeline moves the status of its task backwards, and a
\* task that is completed or failed keeps that status in every later step
C23_StatusMovesForward ==
    [][\A t \in TaskIds :
          /\ StatusNo(task_results'[t].status) >= StatusNo(task_results[t].status)
          /\ task_results[t].status \in {"completed", "failed"} =>
                 task_results'[t].status = task_results[t].status]_vars
\* a batch failed at its second row, after the first one was processed
C23_Witness ==
    /\ route = "v2" /\ pc = "raised" /\ idx = 2
    /\ task_results[task_id].status = "failed"

\* C24: a task that was created and deleted is not in the store again after
\* any later step, the status updates of its own running pipeline included:
\* a lookup of it finds nothing
C24_DeletedStaysDeleted ==
    [][\A t \in TaskIds :
          (origin[t] # "none" /\ get_task_status(task_results, t) = NoTask) =>
              get_task_status(task_results', t) = NoTask]_vars
\* the deepseek pipeline has completed a task that was deleted on its way
C24_Witness ==
    /\ route = "deepseek" /\ pc = "done" /\ response.t = "list"
    /\ Len(rows) >= 1
    /\ origin[task_id] = "deepseek"
    /\ get_task_status(task_results, task_id) = NoTask

\* C25: in the result of a completed v2 task, successful_matches is the
\* number of entries that carry a non-empty identity id, and it is at most
\* total_processed
C25_MatchesCounted ==
    (route = "v2" /\ pc = "done" /\
     task_results[task_id].status = "completed") =>
        LET r == task_results[task_id].result IN
        /\ r.successful_matches =
             Cardinality({j \in 1..Len(r.results) : Truthy(r.results[j].orcid_id)})
        /\ r.successful_matches <= r.total_processed

\* C26: add_db, called directly or through POST /api/databases, leaves
\* every database that was registered before it in the registry, under its
\* id and with its configuration
C26_AddDbKeepsOthers ==
    [][response'.t \in {"added", "created"} =>
          \A i \in DOMAIN DBS : i \in DOMAIN DBS' /\ DBS'[i] = DBS[i]]_vars

\* C27: the id POST /api/databases returns is the id add_db gave the new
\* database
C27_ReturnedIdIsAssigned ==
    response.t = "created" =>
        response.id = IntStr(configs[KeyOf(response.name)].id)

\* the passwords the server holds
StoredPasswords == {DBS[i].password : i \in DOMAIN DBS}
                   \cup {configs[k].password : k \in DOMAIN configs}
Discloses(rec) == "password" \in DOMAIN rec /\ rec.password \in StoredPasswords

\* C28: what list_dbs, get_db_by_conn_name, add_db and call_mcp_list_dbs
\* return holds no stored password: the password field is masked or absent
C28_PasswordsMasked ==
    /\ response.t \in {"list", "api_list"} =>
          \A db \in response.dbs : ~Discloses(db) /\ db.password = Mask
    /\ response.t = "db" =>
          ~Discloses(response.db) /\ response.db.password = Mask
    /\ response.t = "added" => ~Discloses(response)
\* two databases with different passwords are listed
C28_Witness ==
    /\ response.t = "list"
    /\ Cardinality(response.dbs) = 2
    /\ Cardinality(StoredPasswords) = 2

\* the positions of the entries a result list holds
Positions(list) == {list[j].n : j \in 1..Len(list)}

\* C29: when save_researchers_bulk is over, every submitted entry is in
\* exactly one of saved, duplicates and failed, the three counts add up to
\* the number submitted, and an entry whose non-empty ORCID id belongs to a
\* researcher stored before it (before the call, or saved earlier in it) is
\* among the duplicates and no row was inserted for it
C29_BulkPartition ==
    (route = "bulk" /\ pc \in {"returned", "raised"}) =>
        /\ response.t = "bulk"
        /\ response.saved_count + response.duplicate_count
               + response.failed_count = Len(researchers_data)
        /\ \A i \in 1..Len(researchers_data) :
              Cardinality({l \in {"chercheurs", "duplicates", "failed"} :
                              i \in Positions(response[l])}) = 1
        /\ \A i \in 1..Len(researchers_data) :
              (/\ Truthy(researchers_data[i].orcid_id)
               /\ \E r \in chercheurs :
                     r.orcid_id = researchers_data[i].orcid_id /\ r.n < i)
              => /\ i \in Positions(response.duplicates)
                 /\ ~\E r \in chercheurs : r.n = i

====
